---- MODULE Spec2Model ----
(***************************************************************************)
(* LinkVault client-side data engine: the Zustand store (store/useStore.ts)*)
(* over the localStorage persistence service, the create-folder modal and  *)
(* the data-management handlers of the settings modal.                     *)
(***************************************************************************)
EXTENDS Integers, Sequences, FiniteSets, TLC

\* ------------------------------------------------------------------ bounds
\* number of identifiers crypto.randomUUID hands out in one behaviour
MaxIds == 2
\* last millisecond of the clock
MaxTime == 1
\* number of entries of the platform-folder catalog that are modelled
PlatformCount == 1

\* ------------------------------------------------------- program constants
MAX_SUB_FOLDERS_PER_FOLDER == 10

LINKS == "linkvault_links"
FOLDERS == "linkvault_folders"
SETTINGS == "linkvault_settings"
STORAGE_KEYS == {LINKS, FOLDERS, SETTINGS}

DEFAULT_SETTINGS == [theme |-> "system", viewMode |-> "grid"]

Platform ==
  <<"youtube", "twitter", "instagram", "linkedin", "tiktok",
    "github", "medium", "reddit", "facebook", "other">>

\* one catalog entry per platform, in the order of the Platform enumeration
PLATFORM_FOLDERS ==
  [i \in 1..PlatformCount |->
     [name |-> Platform[i], color |-> "brand", iconName |-> Platform[i],
      platform |-> Platform[i]]]

\* the views (browser tabs) of the one origin
Views == {1, 2}

\* ----------------------------------------------------------------- values
\* JavaScript null
null == <<>>

\* new Date(t).toISOString(): the text of the instant t
toISOString(t) == <<t>>

\* crypto.randomUUID(): the n-th identifier handed out
randomUUID(n) == <<"uuid", n>>
\* `platform-folder-${index}-${Date.now()}`
PlatformFolderId(index, t) == <<"platform-folder", index, t>>

\* the clock value of a second read in the same handler: the clock may have
\* ticked once since the first read
Later(t) == {t} \cup ({t + 1} \cap (0..MaxTime))

\* { ...obj, ...updates }
Spread(obj, updates) == updates @@ obj

\* ------------------------------------------------- persistence service
\* JSON.stringify of an array / of an object
JArray(items) == [type |-> "array", items |-> items]
JObject(fields) == [type |-> "object", fields |-> fields]
\* a text that is not JSON
Garbage == [type |-> "garbage"]

\* JSON.parse succeeds
Parses(text) == text.type \in {"array", "object"}
\* JSON.parse
Parse(text) == IF text.type = "array" THEN text.items ELSE text.fields

\* storage.getItem(key) yields a value (the key is present and parses)
hasItem(store, key) == key \in DOMAIN store /\ Parses(store[key])
\* storage.getItem(key) || dflt
getItem(store, key, dflt) ==
  IF hasItem(store, key) THEN Parse(store[key]) ELSE dflt

\* storage.setItem(key, value): value already serialised by JArray/JObject
setItem(store, key, text) ==
  [k \in DOMAIN store \cup {key} |-> IF k = key THEN text ELSE store[k]]

\* storage.clear(): every application key erased
clear(store) == [k \in {} |-> Garbage]

\* storage.exportData(): one document bundling the three records
exportDataText(store) ==
  JObject([links |-> JArray(getItem(store, LINKS, <<>>)),
           folders |-> JArray(getItem(store, FOLDERS, <<>>)),
           settings |-> JObject(getItem(store, SETTINGS, DEFAULT_SETTINGS)),
           version |-> 1])

\* the shape validation of storage.importData
validSnapshot(text) ==
  /\ text.type = "object"
  /\ {"links", "folders", "settings"} \subseteq DOMAIN text.fields
  /\ text.fields.links.type = "array"
  /\ text.fields.folders.type = "array"
  /\ text.fields.settings.type = "object"

\* storage.importData(jsonString): the durable store afterwards
importDataStore(store, text) ==
  IF validSnapshot(text)
    THEN setItem(setItem(setItem(store, LINKS, text.fields.links),
                         FOLDERS, text.fields.folders),
                 SETTINGS, text.fields.settings)
    ELSE store

\* --------------------------------------------------------------- state
VARIABLES
  durable,      \* localStorage: key -> stored text
  now,          \* the clock, in milliseconds
  uuids,        \* number of identifiers crypto.randomUUID has handed out
  open,         \* the views that are open
  pending,      \* view -> a storage event is queued for it
  links,        \* view -> state.links
  folders,      \* view -> state.folders
  settings,     \* view -> state.settings
  isHydrated,   \* view -> state.isHydrated
  isCreateFolderModalOpen,  \* view -> state.isCreateFolderModalOpen
  editingFolderId,          \* view -> state.editingFolderId
  parentFolderId,           \* view -> state.parentFolderId
  currentView,              \* view -> state.currentView
  selectedFolderId,         \* view -> state.selectedFolderId
  selectedIds,              \* view -> Home: selectedIds
  showDeleteModal,          \* view -> BulkActionBar: showDeleteModal
  showMoveModal,            \* view -> BulkActionBar: showMoveModal
  moveSelectedFolderId,     \* view -> BulkMoveModal: selectedFolderId
  isMoving,                 \* view -> BulkMoveModal: isMoving
  toast,                    \* view -> the toast shown last
  lastOp        \* history: the operation that produced this state

vars ==
  <<durable, now, uuids, open, pending, links, folders,
    settings, isHydrated, isCreateFolderModalOpen, editingFolderId,
    parentFolderId, currentView, selectedFolderId, selectedIds,
    showDeleteModal, showMoveModal, moveSelectedFolderId, isMoving, toast,
    lastOp>>

dataVars == <<links, folders, settings, isHydrated>>
modalVars == <<isCreateFolderModalOpen, editingFolderId, parentFolderId>>
\* the page: the sidebar's choice, the selection and the bulk action bar
uiVars ==
  <<currentView, selectedFolderId, selectedIds, showDeleteModal,
    showMoveModal, moveSelectedFolderId, isMoving, toast>>

\* history: the operation name, its view and identifier argument, whether it
\* reported success, and (for deleteLink, and a restoreLink right after it)
\* the links as they were before the deleteLink
Op(name, v, id, ok) ==
  [op |-> name, view |-> v, id |-> id, ok |-> ok, before |-> null]

\* the store as create() builds it (useStore initial state), and the page
\* and the bulk action bar as their useState calls build them
InitialState ==
  /\ links = [v \in Views |-> <<>>]
  /\ folders = [v \in Views |-> <<>>]
  /\ settings = [v \in Views |-> DEFAULT_SETTINGS]
  /\ isHydrated = [v \in Views |-> FALSE]
  /\ isCreateFolderModalOpen = [v \in Views |-> FALSE]
  /\ editingFolderId = [v \in Views |-> null]
  /\ parentFolderId = [v \in Views |-> null]
  /\ currentView = [v \in Views |-> "all"]
  /\ selectedFolderId = [v \in Views |-> null]
  /\ selectedIds = [v \in Views |-> <<>>]
  /\ showDeleteModal = [v \in Views |-> FALSE]
  /\ showMoveModal = [v \in Views |-> FALSE]
  /\ moveSelectedFolderId = [v \in Views |-> null]
  /\ isMoving = [v \in Views |-> FALSE]
  /\ toast = [v \in Views |-> null]

\* a write to localStorage: every other open view gets a storage event when
\* the stored value changed
Persist(v, store) ==
  /\ durable' = store
  /\ pending' = [w \in Views |->
                   IF w \in open \ {v} /\ store # durable THEN TRUE
                   ELSE pending[w]]

idsOf(list) == { list[i].id : i \in DOMAIN list }

\* list.find(x => x.id === id), for an id that is in the list
find(list, id) == list[CHOOSE i \in DOMAIN list : list[i].id = id]

\* ------------------------------------------------------- link operations
addLinkF(ls, linkData, id, t1, t2) ==
  Append(ls, Spread(linkData,
                    [id |-> id, deletedAt |-> null,
                     createdAt |-> toISOString(t1),
                     updatedAt |-> toISOString(t2)]))

updateLinkF(ls, id, updates, t) ==
  [i \in DOMAIN ls |->
     IF ls[i].id = id
       THEN Spread(Spread(ls[i], updates), [updatedAt |-> toISOString(t)])
       ELSE ls[i]]

deleteLinkF(ls, id, t1, t2) ==
  [i \in DOMAIN ls |->
     IF ls[i].id = id
       THEN Spread(ls[i], [deletedAt |-> toISOString(t1),
                           updatedAt |-> toISOString(t2)])
       ELSE ls[i]]

\* (mutant) a restored link also loses its favourite mark
restoreLinkUnfavoriteF(ls, id, t) ==
  [i \in DOMAIN ls |->
     IF ls[i].id = id
       THEN Spread(ls[i], [deletedAt |-> null, isFavorite |-> FALSE,
                           updatedAt |-> toISOString(t)])
       ELSE ls[i]]

restoreLinkF(ls, id, t) ==
  [i \in DOMAIN ls |->
     IF ls[i].id = id
       THEN Spread(ls[i], [deletedAt |-> null, updatedAt |-> toISOString(t)])
       ELSE ls[i]]

\* (mutant) only a link in trash is removed
permanentlyDeleteTrashedF(ls, id) ==
  SelectSeq(ls, LAMBDA l : l.id # id \/ l.deletedAt = null)

permanentlyDeleteLinkF(ls, id) == SelectSeq(ls, LAMBDA l : l.id # id)

toggleFavoriteF(ls, id, t) ==
  [i \in DOMAIN ls |->
     IF ls[i].id = id
       THEN Spread(ls[i], [isFavorite |-> ~ls[i].isFavorite,
                           updatedAt |-> toISOString(t)])
       ELSE ls[i]]

\* (mutant) the links are replaced in memory and never written
setLinksUnsaved(v, updatedLinks) ==
  /\ links' = [links EXCEPT ![v] = updatedLinks]
  /\ UNCHANGED <<durable, pending>>

\* set((state) => { storage.setItem(LINKS, updatedLinks); return {links} })
setLinks(v, updatedLinks) ==
  /\ links' = [links EXCEPT ![v] = updatedLinks]
  /\ Persist(v, setItem(durable, LINKS, JArray(updatedLinks)))

\* the same updater when storage.setItem throws (capacity exceeded): the
\* updater never returns, so set() assigns nothing and the exception leaves
\* the store action
setLinksThrows(v, updatedLinks) == UNCHANGED <<links, durable, pending>>

addLink(v, linkData) ==
  /\ uuids < MaxIds
  /\ \E t2 \in Later(now) :
       /\ setLinks(v, addLinkF(links[v], linkData, randomUUID(uuids + 1), now, t2))
       /\ now' = t2
  /\ uuids' = uuids + 1
  /\ lastOp' = Op("addLink", v, randomUUID(uuids + 1), TRUE)
  /\ UNCHANGED <<open, folders, settings, isHydrated, modalVars>>

updateLink(v, id, updates) ==
  /\ setLinks(v, updateLinkF(links[v], id, updates, now))
  /\ lastOp' = Op("updateLink", v, id, TRUE)
  /\ UNCHANGED <<now, uuids, open, folders, settings, isHydrated, modalVars>>

deleteLink(v, id) ==
  /\ \E t2 \in Later(now) :
       /\ setLinks(v, deleteLinkF(links[v], id, now, t2))
       /\ now' = t2
  /\ lastOp' = [Op("deleteLink", v, id, TRUE) EXCEPT !.before = <<links[v]>>]
  /\ UNCHANGED <<uuids, open, folders, settings, isHydrated, modalVars>>

restoreLink(v, id) ==
  /\ setLinks(v, restoreLinkF(links[v], id, now))
  /\ lastOp' = [Op("restoreLink", v, id, TRUE) EXCEPT
                  !.before = IF lastOp.op = "deleteLink" /\ lastOp.id = id
                                  /\ lastOp.view = v
                               THEN lastOp.before ELSE null]
  /\ UNCHANGED <<now, uuids, open, folders, settings, isHydrated, modalVars>>

permanentlyDeleteLink(v, id) ==
  /\ setLinks(v, permanentlyDeleteLinkF(links[v], id))
  /\ lastOp' = Op("permanentlyDeleteLink", v, id, TRUE)
  /\ UNCHANGED <<now, uuids, open, folders, settings, isHydrated, modalVars>>

toggleFavorite(v, id) ==
  /\ setLinks(v, toggleFavoriteF(links[v], id, now))
  /\ lastOp' = Op("toggleFavorite", v, id, TRUE)
  /\ UNCHANGED <<now, uuids, open, folders, settings, isHydrated, modalVars>>

\* ----------------------------------------------------- folder operations
addFolderF(fs, folderData, id, t1, t2) ==
  Append(fs, Spread(folderData,
                    [id |-> id, createdAt |-> toISOString(t1),
                     updatedAt |-> toISOString(t2)]))

updateFolderF(fs, id, updates, t) ==
  [i \in DOMAIN fs |->
     IF fs[i].id = id
       THEN Spread(Spread(fs[i], updates), [updatedAt |-> toISOString(t)])
       ELSE fs[i]]

\* (mutant) removal by position: splice(findIndex(id), 1), and findIndex
\* gives -1, the last position, when the identifier is not found
deleteFolderSpliceF(fs, id) ==
  IF id \in idsOf(fs)
    THEN SelectSeq(fs, LAMBDA f : f.id # id)
    ELSE SubSeq(fs, 1, Len(fs) - 1)

\* (mutant) a cascading removal: the folder and the folders directly below it
deleteFolderCascadeF(fs, id) ==
  SelectSeq(fs, LAMBDA f : f.id # id /\ f.parentId # id)

deleteFolderF(fs, id) == SelectSeq(fs, LAMBDA f : f.id # id)

setFolders(v, updatedFolders) ==
  /\ folders' = [folders EXCEPT ![v] = updatedFolders]
  /\ Persist(v, setItem(durable, FOLDERS, JArray(updatedFolders)))

\* the folders updater when storage.setItem throws
setFoldersThrows(v, updatedFolders) == UNCHANGED <<folders, durable, pending>>

addFolder(v, folderData) ==
  /\ uuids < MaxIds
  /\ \E t2 \in Later(now) :
       /\ setFolders(v, addFolderF(folders[v], folderData,
                                   randomUUID(uuids + 1), now, t2))
       /\ now' = t2
  /\ uuids' = uuids + 1
  /\ lastOp' = Op("addFolder", v, randomUUID(uuids + 1), TRUE)
  /\ UNCHANGED <<open, links, settings, isHydrated, modalVars>>

updateFolder(v, id, updates) ==
  /\ setFolders(v, updateFolderF(folders[v], id, updates, now))
  /\ lastOp' = Op("updateFolder", v, id, TRUE)
  /\ UNCHANGED <<now, uuids, open, links, settings, isHydrated, modalVars>>

deleteFolder(v, id) ==
  /\ setFolders(v, deleteFolderF(folders[v], id))
  /\ lastOp' = Op("deleteFolder", v, id, TRUE)
  /\ UNCHANGED <<now, uuids, open, links, settings, isHydrated, modalVars>>

\* --------------------------------------------------------------- settings
updateSettings(v, newSettings) ==
  /\ settings' = [settings EXCEPT ![v] = Spread(settings[v], newSettings)]
  /\ Persist(v, setItem(durable, SETTINGS,
                        JObject(Spread(settings[v], newSettings))))
  /\ lastOp' = Op("updateSettings", v, null, TRUE)
  /\ UNCHANGED <<now, uuids, open, links, folders, isHydrated, modalVars>>

\* ----------------------------------------------- folder hierarchy utilities
getSubFolderCount(parentId, fs) ==
  Cardinality({ i \in DOMAIN fs : fs[i].parentId = parentId })

canAddSubFolder(parentId, fs) ==
  getSubFolderCount(parentId, fs) < MAX_SUB_FOLDERS_PER_FOLDER

\* ---------------------------------------------------- create-folder modal
\* what the folder form submits (name and icon; the colour follows the icon)
FolderFormData == { [name |-> "n", iconName |-> "Folder"] }

colorOf(iconName) == "amber"

\* sidebar "+" button: setCreateFolderModalOpen(true)
sidebarAddFolder(v) ==
  /\ isCreateFolderModalOpen' = [isCreateFolderModalOpen EXCEPT ![v] = TRUE]
  /\ lastOp' = Op("sidebarAddFolder", v, null, TRUE)
  /\ UNCHANGED <<durable, now, uuids, open, pending, dataVars,
                 editingFolderId, parentFolderId>>

handleEditFolder(v, folderId) ==
  /\ editingFolderId' = [editingFolderId EXCEPT ![v] = folderId]
  /\ isCreateFolderModalOpen' = [isCreateFolderModalOpen EXCEPT ![v] = TRUE]
  /\ lastOp' = Op("handleEditFolder", v, folderId, TRUE)
  /\ UNCHANGED <<durable, now, uuids, open, pending, dataVars, parentFolderId>>

handleAddSubFolder(v, parentId) ==
  /\ IF ~canAddSubFolder(parentId, folders[v])
       THEN \* toast "Maximum sub-folders reached"
            /\ lastOp' = Op("handleAddSubFolder", v, parentId, FALSE)
            /\ UNCHANGED modalVars
       ELSE /\ parentFolderId' = [parentFolderId EXCEPT ![v] = parentId]
            /\ isCreateFolderModalOpen' =
                 [isCreateFolderModalOpen EXCEPT ![v] = TRUE]
            /\ lastOp' = Op("handleAddSubFolder", v, parentId, TRUE)
            /\ UNCHANGED editingFolderId
  /\ UNCHANGED <<durable, now, uuids, open, pending, dataVars>>

\* reset(); setEditingFolder(null); setParentFolder(null); setIsOpen(false)
closeModal(v) ==
  /\ editingFolderId' = [editingFolderId EXCEPT ![v] = null]
  /\ parentFolderId' = [parentFolderId EXCEPT ![v] = null]
  /\ isCreateFolderModalOpen' = [isCreateFolderModalOpen EXCEPT ![v] = FALSE]

handleClose(v) ==
  /\ isCreateFolderModalOpen[v]
  /\ closeModal(v)
  /\ lastOp' = Op("handleClose", v, null, TRUE)
  /\ UNCHANGED <<durable, now, uuids, open, pending, dataVars>>

\* editingFolder is found, so the modal is in edit mode
isEditMode(v) == editingFolderId[v] \in idsOf(folders[v])

\* (mutant) only a parent that is not found is refused
parentIsMissing(v) == parentFolderId[v] \notin idsOf(folders[v])

\* parent?.parentId !== null, for parent = folders.find(f => f.id === parentId)
parentIsNotRoot(v) ==
  \/ parentFolderId[v] \notin idsOf(folders[v])
  \/ find(folders[v], parentFolderId[v]).parentId # null

\* (mutant) the submit handler checks the depth and not the limit
subFolderRejectedByDepth(v) ==
  /\ ~isEditMode(v)
  /\ parentFolderId[v] # null
  /\ parentIsNotRoot(v)

\* the two validations a new sub-folder must pass
subFolderRejected(v) ==
  /\ ~isEditMode(v)
  /\ parentFolderId[v] # null
  /\ \/ parentIsNotRoot(v)
     \/ ~canAddSubFolder(parentFolderId[v], folders[v])

onSubmit(v, data) ==
  /\ isCreateFolderModalOpen[v]
  /\ IF subFolderRejected(v)
       THEN \* toast and return: nothing is written, the modal stays open
            /\ lastOp' = Op("onSubmit", v, parentFolderId[v], FALSE)
            /\ UNCHANGED <<durable, now, uuids, pending, folders, modalVars>>
       ELSE IF isEditMode(v)
         THEN /\ setFolders(v, updateFolderF(folders[v], editingFolderId[v],
                     [name |-> data.name, icon |-> data.iconName,
                      color |-> colorOf(data.iconName)], now))
              /\ closeModal(v)
              /\ lastOp' = Op("onSubmit", v, editingFolderId[v], TRUE)
              /\ UNCHANGED <<now, uuids>>
         ELSE /\ uuids < MaxIds
              /\ \E t2 \in Later(now) :
                   /\ setFolders(v, addFolderF(folders[v],
                          [name |-> data.name, description |-> "",
                           color |-> colorOf(data.iconName),
                           icon |-> data.iconName,
                           parentId |-> parentFolderId[v],
                           isPlatformFolder |-> FALSE],
                          randomUUID(uuids + 1), now, t2))
                   /\ now' = t2
              /\ uuids' = uuids + 1
              /\ closeModal(v)
              /\ lastOp' = Op("onSubmit", v, randomUUID(uuids + 1), TRUE)
  /\ UNCHANGED <<open, links, settings, isHydrated>>

\* -------------------------------------------------------- data management
\* the platform root folders synthesised at the instant t
platformFolders(t) ==
  [i \in 1..Len(PLATFORM_FOLDERS) |->
     [id |-> PlatformFolderId(i - 1, t),
      name |-> PLATFORM_FOLDERS[i].name,
      description |-> "",
      color |-> PLATFORM_FOLDERS[i].color,
      icon |-> PLATFORM_FOLDERS[i].iconName,
      parentId |-> null,
      isPlatformFolder |-> TRUE,
      platform |-> PLATFORM_FOLDERS[i].platform,
      createdAt |-> toISOString(t),
      updatedAt |-> toISOString(t)]]

\* what loadFromStorage puts into memory, and what it leaves in localStorage
loadedLinks(store) == getItem(store, LINKS, <<>>)
loadedFolders(store, t) ==
  IF Len(getItem(store, FOLDERS, <<>>)) = 0
    THEN platformFolders(t)
    ELSE getItem(store, FOLDERS, <<>>)
loadedSettings(store) == getItem(store, SETTINGS, DEFAULT_SETTINGS)
\* (mutant) the synthesised platform folders are not written back
loadedStoreUnsaved(store, t) == store

loadedStore(store, t) ==
  IF Len(getItem(store, FOLDERS, <<>>)) = 0
    THEN setItem(store, FOLDERS, JArray(platformFolders(t)))
    ELSE store

\* loadFromStorage() run against the localStorage contents store
load(v, store) ==
  /\ links' = [links EXCEPT ![v] = loadedLinks(store)]
  /\ folders' = [folders EXCEPT ![v] = loadedFolders(store, now)]
  /\ settings' = [settings EXCEPT ![v] = loadedSettings(store)]
  /\ isHydrated' = [isHydrated EXCEPT ![v] = TRUE]
  /\ Persist(v, loadedStore(store, now))

\* StoreInitializer: the mount effect of a freshly loaded page
loadFromStorage(v) ==
  /\ ~isHydrated[v]
  /\ load(v, durable)
  /\ lastOp' = Op("loadFromStorage", v, null, TRUE)
  /\ UNCHANGED <<now, uuids, open, modalVars>>

\* (mutant) a successful import is not followed by loadFromStorage
importDataUnloaded(v, jsonString) ==
  /\ IF validSnapshot(jsonString)
       THEN /\ Persist(v, importDataStore(durable, jsonString))
            /\ UNCHANGED dataVars
            /\ lastOp' = Op("importData", v, null, TRUE)
       ELSE /\ UNCHANGED <<durable, pending, dataVars>>
            /\ lastOp' = Op("importData", v, null, FALSE)
  /\ UNCHANGED <<now, uuids, open, modalVars>>

importData(v, jsonString) ==
  /\ IF validSnapshot(jsonString)
       THEN /\ load(v, importDataStore(durable, jsonString))
            /\ lastOp' = Op("importData", v, null, TRUE)
       ELSE /\ UNCHANGED <<durable, pending, dataVars>>
            /\ lastOp' = Op("importData", v, null, FALSE)
  /\ UNCHANGED <<now, uuids, open, modalVars>>

\* a page load: the store is created anew
resetView(v) ==
  /\ links' = [links EXCEPT ![v] = <<>>]
  /\ folders' = [folders EXCEPT ![v] = <<>>]
  /\ settings' = [settings EXCEPT ![v] = DEFAULT_SETTINGS]
  /\ isHydrated' = [isHydrated EXCEPT ![v] = FALSE]
  /\ isCreateFolderModalOpen' = [isCreateFolderModalOpen EXCEPT ![v] = FALSE]
  /\ editingFolderId' = [editingFolderId EXCEPT ![v] = null]
  /\ parentFolderId' = [parentFolderId EXCEPT ![v] = null]

\* the user reloads the page
reload(v) ==
  /\ resetView(v)
  /\ lastOp' = Op("reload", v, null, TRUE)
  /\ UNCHANGED <<durable, now, uuids, open, pending>>

\* confirm; storage.clear(); window.location.reload()
handleClearData(v) ==
  /\ Persist(v, clear(durable))
  /\ resetView(v)
  /\ lastOp' = Op("handleClearData", v, null, TRUE)
  /\ UNCHANGED <<now, uuids, open>>

\* the clock advances between handlers
Tick ==
  /\ now < MaxTime
  /\ now' = now + 1
  /\ UNCHANGED <<durable, uuids, open, pending, dataVars, modalVars, lastOp>>

\* ------------------------------------------------------------ user inputs
\* the data the add-link form submits
LinkData ==
  { [url |-> "a", title |-> "t", description |-> "", thumbnail |-> "",
     platform |-> "other", folderId |-> null, isFavorite |-> FALSE] }

\* the folder a link is moved to: the first folder of the sidebar
MoveTargets(v) == { folders[v][i].id : i \in DOMAIN folders[v] \cap {1} }

\* the partial objects the callers of updateLink pass: a move, or the edit form
LinkUpdates(v, id) ==
  { [folderId |-> f] : f \in MoveTargets(v) }
  \cup
  { [url |-> "a", title |-> "t", description |-> "", thumbnail |-> "",
     platform |-> "other", folderId |-> null,
     isFavorite |-> find(links[v], id).isFavorite] : x \in {id} \cap idsOf(links[v]) }

SettingsUpdates == { [viewMode |-> "grid"], [viewMode |-> "list"] }

\* a backup that lacks the folders field
MissingFoldersFile ==
  JObject([links |-> JArray(<<>>), settings |-> JObject(DEFAULT_SETTINGS),
           version |-> 1])

\* a backup that holds one link, under the first identifier handed out, and
\* the platform folders
BackupFile ==
  JObject([links |-> JArray(addLinkF(<<>>, CHOOSE d \in LinkData : TRUE,
                                     randomUUID(1), 0, 0)),
           folders |-> JArray(platformFolders(0)),
           settings |-> JObject(DEFAULT_SETTINGS),
           version |-> 1])

\* the files the user picks in the import dialog: the backup exported just
\* now, two files that are no backup and, once the first identifier has been
\* handed out, the older backup
ImportFiles ==
  { exportDataText(durable), MissingFoldersFile, Garbage }
  \cup { f \in {BackupFile} : uuids >= 1 }

\* ---------------------------------------------------------- specification
\* one view opened on an empty localStorage
Init ==
  /\ durable = [k \in {} |-> Garbage]
  /\ now = 0
  /\ uuids = 0
  /\ open = {1}
  /\ pending = [v \in Views |-> FALSE]
  /\ InitialState
  /\ lastOp = Op("create", 1, null, TRUE)

\* the folder the sidebar "+" button creates, as the store receives it
FolderData ==
  { [name |-> "n", description |-> "", color |-> "amber", icon |-> "Folder",
     parentId |-> null, isPlatformFolder |-> FALSE] }

\* the fields the folder form edits
FolderUpdates == { [name |-> "m", icon |-> "Star", color |-> "yellow"] }

\* view v is open and its store is hydrated: the mount effect runs before
\* the first user event
Hydrated(v) == v \in open /\ isHydrated[v]

\* the store operations of one view
Next ==
  \/ Tick /\ UNCHANGED uiVars
  \/ \E v \in Views : v \in open /\ loadFromStorage(v) /\ UNCHANGED uiVars
  \/ \E v \in Views : Hydrated(v) /\ \E linkData \in LinkData : addLink(v, linkData)
       /\ UNCHANGED uiVars
  \/ \E v \in Views : Hydrated(v) /\ \E id \in idsOf(links[v]) :
       \E updates \in LinkUpdates(v, id) : updateLink(v, id, updates)
       /\ UNCHANGED uiVars
  \/ \E v \in Views : Hydrated(v) /\ \E id \in idsOf(links[v]) : deleteLink(v, id)
       /\ UNCHANGED uiVars
  \/ \E v \in Views : Hydrated(v) /\ \E id \in idsOf(links[v]) : restoreLink(v, id)
       /\ UNCHANGED uiVars
  \/ \E v \in Views : Hydrated(v) /\ \E id \in idsOf(links[v]) :
       permanentlyDeleteLink(v, id) /\ UNCHANGED uiVars
  \/ \E v \in Views : Hydrated(v) /\ \E id \in idsOf(links[v]) : toggleFavorite(v, id)
       /\ UNCHANGED uiVars
  \/ \E v \in Views : Hydrated(v) /\ \E folderData \in FolderData :
       addFolder(v, folderData) /\ UNCHANGED uiVars
  \/ \E v \in Views : Hydrated(v) /\ \E id \in idsOf(folders[v]) :
       \E updates \in FolderUpdates : updateFolder(v, id, updates)
       /\ UNCHANGED uiVars
  \/ \E v \in Views : Hydrated(v) /\ \E id \in idsOf(folders[v]) : deleteFolder(v, id)
       /\ UNCHANGED uiVars
  \/ \E v \in Views : Hydrated(v) /\ \E newSettings \in SettingsUpdates :
       updateSettings(v, newSettings) /\ UNCHANGED uiVars
  \/ \E v \in Views : Hydrated(v) /\ handleClearData(v) /\ UNCHANGED uiVars

Spec == Init /\ [][Next]_vars

\* --------------------------------------------------- backup and restore
NextData ==
  \/ Tick /\ UNCHANGED uiVars
  \/ \E v \in Views : v \in open /\ loadFromStorage(v) /\ UNCHANGED uiVars
  \/ \E v \in Views : Hydrated(v) /\ \E linkData \in LinkData : addLink(v, linkData)
       /\ UNCHANGED uiVars
  \/ \E v \in Views : Hydrated(v) /\ \E id \in idsOf(links[v]) : deleteLink(v, id)
       /\ UNCHANGED uiVars
  \/ \E v \in Views : Hydrated(v) /\ \E id \in idsOf(links[v]) : restoreLink(v, id)
       /\ UNCHANGED uiVars
  \/ \E v \in Views : Hydrated(v) /\ \E id \in idsOf(links[v]) :
       permanentlyDeleteLink(v, id) /\ UNCHANGED uiVars
  \/ \E v \in Views : Hydrated(v) /\ \E id \in idsOf(folders[v]) : deleteFolder(v, id)
       /\ UNCHANGED uiVars
  \/ \E v \in Views : Hydrated(v) /\ \E newSettings \in SettingsUpdates :
       updateSettings(v, newSettings) /\ UNCHANGED uiVars
  \/ \E v \in Views : Hydrated(v) /\ \E jsonString \in ImportFiles :
       importData(v, jsonString) /\ UNCHANGED uiVars
  \/ \E v \in Views : Hydrated(v) /\ handleClearData(v) /\ UNCHANGED uiVars

SpecData == Init /\ [][NextData]_vars

\* ------------------------------------------- operations on unknown identifiers
\* an identifier crypto.randomUUID never hands out
UnknownId == randomUUID(0)

NextNotFound ==
  \/ Tick /\ UNCHANGED uiVars
  \/ \E v \in Views : v \in open /\ loadFromStorage(v) /\ UNCHANGED uiVars
  \/ \E v \in Views : Hydrated(v) /\ \E linkData \in LinkData : addLink(v, linkData)
       /\ UNCHANGED uiVars
  \/ \E v \in Views : Hydrated(v) /\ \E folderData \in FolderData :
       addFolder(v, folderData) /\ UNCHANGED uiVars
  \/ \E v \in Views : Hydrated(v) /\ \E newSettings \in SettingsUpdates :
       updateSettings(v, newSettings) /\ UNCHANGED uiVars
  \/ \E v \in Views : Hydrated(v) /\ \E id \in idsOf(links[v]) \cup {UnknownId} :
       updateLink(v, id, [isFavorite |-> TRUE]) /\ UNCHANGED uiVars
  \/ \E v \in Views : Hydrated(v) /\ \E id \in idsOf(links[v]) \cup {UnknownId} :
       deleteLink(v, id) /\ UNCHANGED uiVars
  \/ \E v \in Views : Hydrated(v) /\ \E id \in idsOf(links[v]) \cup {UnknownId} :
       restoreLink(v, id) /\ UNCHANGED uiVars
  \/ \E v \in Views : Hydrated(v) /\ \E id \in idsOf(links[v]) \cup {UnknownId} :
       toggleFavorite(v, id) /\ UNCHANGED uiVars
  \/ \E v \in Views : Hydrated(v) /\ \E id \in idsOf(links[v]) \cup {UnknownId} :
       permanentlyDeleteLink(v, id) /\ UNCHANGED uiVars
  \/ \E v \in Views : Hydrated(v) /\ \E id \in idsOf(folders[v]) \cup {UnknownId} :
       \E updates \in FolderUpdates : updateFolder(v, id, updates)
       /\ UNCHANGED uiVars
  \/ \E v \in Views : Hydrated(v) /\ \E id \in idsOf(folders[v]) \cup {UnknownId} :
       deleteFolder(v, id) /\ UNCHANGED uiVars

SpecNotFound == Init /\ [][NextNotFound]_vars

\* ------------------------------------------------------- folder management
\* identifiers handed out in an earlier session
PriorId(k) == <<"prior-uuid", k>>

\* a root folder with k sub-folders, as the create-folder modal builds them
FolderTree(k) ==
  [i \in 1..(k + 1) |->
     [id |-> PriorId(i - 1), name |-> "n", description |-> "",
      color |-> "amber", icon |-> "Folder",
      parentId |-> IF i = 1 THEN null ELSE PriorId(0),
      isPlatformFolder |-> FALSE,
      createdAt |-> toISOString(0), updatedAt |-> toISOString(0)]]

FolderFile(k) ==
  JObject([links |-> JArray(<<>>), folders |-> JArray(FolderTree(k)),
           settings |-> JObject(DEFAULT_SETTINGS), version |-> 1])

\* backups whose root folder is at the limit, and one sub-folder over it
AtLimitFile == FolderFile(MAX_SUB_FOLDERS_PER_FOLDER)
OverLimitFile == FolderFile(MAX_SUB_FOLDERS_PER_FOLDER + 1)

\* one view opened on a store an earlier session left one sub-folder short
\* of the limit
InitFolders ==
  /\ durable = setItem([k \in {} |-> Garbage], FOLDERS,
                       JArray(FolderTree(MAX_SUB_FOLDERS_PER_FOLDER - 1)))
  /\ now = 0
  /\ uuids = 0
  /\ open = {1}
  /\ pending = [v \in Views |-> FALSE]
  /\ InitialState
  /\ lastOp = Op("create", 1, null, TRUE)

\* the sidebar rows the user acts on: the root, its first sub-folder and the
\* folders made in this session
Rows(v) ==
  { id \in idsOf(folders[v]) :
      id \notin { PriorId(k) : k \in 2..(MAX_SUB_FOLDERS_PER_FOLDER + 1) } }

NextFolders ==
  \/ Tick /\ UNCHANGED uiVars
  \/ \E v \in Views : v \in open /\ loadFromStorage(v) /\ UNCHANGED uiVars
  \/ \E v \in Views : Hydrated(v) /\ sidebarAddFolder(v) /\ UNCHANGED uiVars
  \/ \E v \in Views : Hydrated(v) /\ \E id \in Rows(v) : handleEditFolder(v, id)
       /\ UNCHANGED uiVars
  \/ \E v \in Views : Hydrated(v) /\ \E id \in Rows(v) : handleAddSubFolder(v, id)
       /\ UNCHANGED uiVars
  \/ \E v \in Views : Hydrated(v) /\ \E id \in Rows(v) : deleteFolder(v, id)
       /\ UNCHANGED uiVars
  \/ \E v \in Views : Hydrated(v) /\ \E data \in FolderFormData : onSubmit(v, data)
       /\ UNCHANGED uiVars
  \/ \E v \in Views : Hydrated(v) /\ handleClose(v) /\ UNCHANGED uiVars
  \/ \E v \in Views : Hydrated(v) /\ \E jsonString \in {AtLimitFile, OverLimitFile} :
       importData(v, jsonString) /\ UNCHANGED uiVars
  \/ \E v \in Views : Hydrated(v) /\ reload(v) /\ UNCHANGED uiVars

SpecFolders == InitFolders /\ [][NextFolders]_vars

\* ------------------------------------------------------------- two views
\* the browser delivers the queued storage event to view v; the view has
\* subscribed no handler
storageEvent(v) ==
  /\ pending[v]
  /\ pending' = [pending EXCEPT ![v] = FALSE]
  /\ lastOp' = Op("storageEvent", v, null, TRUE)
  /\ UNCHANGED <<durable, now, uuids, open, dataVars, modalVars>>

\* two views opened on an empty localStorage
InitSync ==
  /\ durable = [k \in {} |-> Garbage]
  /\ now = 0
  /\ uuids = 0
  /\ open = Views
  /\ pending = [v \in Views |-> FALSE]
  /\ InitialState
  /\ lastOp = Op("create", 1, null, TRUE)

NextSync ==
  \/ Tick /\ UNCHANGED uiVars
  \/ \E v \in Views : v \in open /\ loadFromStorage(v) /\ UNCHANGED uiVars
  \/ \E v \in Views : v \in open /\ storageEvent(v) /\ UNCHANGED uiVars
  \/ \E v \in Views : Hydrated(v) /\ \E linkData \in LinkData : addLink(v, linkData)
       /\ UNCHANGED uiVars
  \/ \E v \in Views : Hydrated(v) /\ \E id \in idsOf(links[v]) :
       permanentlyDeleteLink(v, id) /\ UNCHANGED uiVars
  \/ \E v \in Views : Hydrated(v) /\ \E id \in idsOf(folders[v]) : deleteFolder(v, id)
       /\ UNCHANGED uiVars

SpecSync == InitSync /\ [][NextSync]_vars

\* ---------------------------------------------------------------- the page
\* the folder and, level by level, the folders below it
RECURSIVE descendants(_, _, _)
descendants(ids, fs, n) ==
  IF n = 0 THEN ids
  ELSE descendants(ids \cup { fs[i].id : i \in { j \in DOMAIN fs :
                                                   fs[j].parentId \in ids } },
                   fs, n - 1)

\* (mutant) no resolution: the folder alone
onlyTheFolder(folderId, fs) == {folderId}

getAllDescendantFolderIds(folderId, fs) == descendants({folderId}, fs, Len(fs))

useSpecificFolderDescendants(folderId, fs) ==
  IF folderId = null THEN {} ELSE getAllDescendantFolderIds(folderId, fs)

\* String.includes on the texts of the model, which are atoms: a text
\* contains the empty text and itself
includes(text, query) == query = "" \/ query = text

\* Array.sort by createdAt, newest first; the sort is stable
insertNewest(sorted, l) ==
  LET k == Cardinality({ i \in DOMAIN sorted :
                           sorted[i].createdAt[1] >= l.createdAt[1] })
  IN SubSeq(sorted, 1, k) \o <<l>> \o SubSeq(sorted, k + 1, Len(sorted))

RECURSIVE sortNewestFirst(_)
sortNewestFirst(ls) ==
  IF ls = <<>> THEN <<>>
  ELSE insertNewest(sortNewestFirst(SubSeq(ls, 1, Len(ls) - 1)), ls[Len(ls)])

\* Home.filteredLinks as a function of what the useMemo depends on
filteredLinksOf(ls, fs, view, folderId, query) ==
  LET descendantFolderIds == useSpecificFolderDescendants(folderId, fs)
      byView ==
        IF view = "trash"
          THEN SelectSeq(ls, LAMBDA l : l.deletedAt # null)
          ELSE LET active == SelectSeq(ls, LAMBDA l : l.deletedAt = null)
               IN IF view = "favorites"
                    THEN SelectSeq(active, LAMBDA l : l.isFavorite)
                    ELSE IF folderId # null /\ descendantFolderIds # {}
                      THEN SelectSeq(active, LAMBDA l :
                             l.folderId # null
                             /\ l.folderId \in descendantFolderIds)
                      ELSE active
      byQuery ==
        IF query # ""
          THEN SelectSeq(byView, LAMBDA l :
                 includes(l.title, query) \/ includes(l.description, query)
                 \/ includes(l.url, query))
          ELSE byView
  IN sortNewestFirst(byQuery)

\* the links the page of view v shows; the search box is left empty
filteredLinks(v) ==
  filteredLinksOf(links[v], folders[v], currentView[v], selectedFolderId[v], "")

\* useFolderActions.getFolderCount: the active links in the folder and below
getFolderCount(v, folderId) ==
  LET descendantIds == getAllDescendantFolderIds(folderId, folders[v])
  IN Cardinality({ i \in DOMAIN links[v] :
                     /\ links[v][i].folderId # null
                     /\ links[v][i].folderId \in descendantIds
                     /\ links[v][i].deletedAt = null })

Toast(title, variant, counts) ==
  [title |-> title, variant |-> variant, counts |-> counts]

pageVars == <<currentView, selectedFolderId, selectedIds>>
barVars == <<showDeleteModal, showMoveModal, moveSelectedFolderId, isMoving>>
storeVars == <<durable, now, uuids, open, pending, dataVars, modalVars>>

\* sidebar: All Links, Favorites, Trash; the page's effect on [currentView]
\* empties the selection when the view changed
sidebarView(v, view) ==
  /\ currentView' = [currentView EXCEPT ![v] = view]
  /\ selectedFolderId' = [selectedFolderId EXCEPT ![v] = null]
  /\ selectedIds' = [selectedIds EXCEPT
                       ![v] = IF view # currentView[v] THEN <<>> ELSE @]
  /\ lastOp' = Op("sidebarView", v, null, TRUE)
  /\ UNCHANGED <<storeVars, barVars, toast>>

\* sidebar: a folder row
sidebarFolder(v, folderId) ==
  /\ currentView' = [currentView EXCEPT ![v] = "all"]
  /\ selectedFolderId' = [selectedFolderId EXCEPT ![v] = folderId]
  /\ selectedIds' = [selectedIds EXCEPT
                       ![v] = IF currentView[v] # "all" THEN <<>> ELSE @]
  /\ lastOp' = Op("sidebarFolder", v, folderId, TRUE)
  /\ UNCHANGED <<storeVars, barVars, toast>>

handleToggleSelect(v, linkId) ==
  /\ selectedIds' = [selectedIds EXCEPT
       ![v] = IF \E i \in DOMAIN @ : @[i] = linkId
                THEN SelectSeq(@, LAMBDA id : id # linkId)
                ELSE Append(@, linkId)]
  /\ lastOp' = Op("handleToggleSelect", v, linkId, TRUE)
  /\ UNCHANGED <<storeVars, currentView, selectedFolderId, barVars, toast>>

handleClearSelection(v) ==
  /\ selectedIds' = [selectedIds EXCEPT ![v] = <<>>]
  /\ lastOp' = Op("handleClearSelection", v, null, TRUE)
  /\ UNCHANGED <<storeVars, currentView, selectedFolderId, barVars, toast>>

\* ------------------------------------------------------------ link card
handleToggleFavorite(v, id) ==
  /\ updateLink(v, id, [isFavorite |-> ~find(links[v], id).isFavorite])
  /\ toast' = [toast EXCEPT ![v] =
       Toast(IF find(links[v], id).isFavorite THEN "Removed from favorites"
             ELSE "Added to favorites", "default", <<>>)]
  /\ UNCHANGED <<pageVars, barVars>>

handleDelete(v, id) ==
  /\ deleteLink(v, id)
  /\ toast' = [toast EXCEPT ![v] = Toast("Link moved to trash", "default", <<>>)]
  /\ UNCHANGED <<pageVars, barVars>>

handlePermanentDelete(v, id) ==
  /\ permanentlyDeleteLink(v, id)
  /\ toast' = [toast EXCEPT ![v] =
       Toast("Link deleted permanently", "destructive", <<>>)]
  /\ UNCHANGED <<pageVars, barVars>>

\* ------------------------------------------------------ bulk action bar
\* the links after the calls updateLink(ids[1], updates) .. updateLink(ids[n],
\* updates), and after deleteLink(ids[1]) .. deleteLink(ids[n])
RECURSIVE updateEach(_, _, _, _, _)
updateEach(ls, ids, n, updates, t) ==
  IF n = 0 THEN ls
  ELSE updateLinkF(updateEach(ls, ids, n - 1, updates, t), ids[n], updates, t)

\* (mutant) the bulk delete goes through permanentlyDeleteLink
RECURSIVE deleteEachForGood(_, _, _, _)
deleteEachForGood(ls, ids, n, t) ==
  IF n = 0 THEN ls
  ELSE permanentlyDeleteLinkF(deleteEachForGood(ls, ids, n - 1, t), ids[n])

RECURSIVE deleteEach(_, _, _, _)
deleteEach(ls, ids, n, t) ==
  IF n = 0 THEN ls
  ELSE deleteLinkF(deleteEach(ls, ids, n - 1, t), ids[n], t, t)

\* what n store calls that succeeded leave in memory and in localStorage
bulkWrite(v, result, n) ==
  /\ links' = [links EXCEPT ![v] = result]
  /\ IF n > 0
       THEN Persist(v, setItem(durable, LINKS, JArray(result)))
       ELSE UNCHANGED <<durable, pending>>

\* links.filter(link => selectedIds.includes(link.id))
selectedLinks(v) ==
  SelectSeq(links[v], LAMBDA l :
    \E i \in DOMAIN selectedIds[v] : selectedIds[v][i] = l.id)

hasMixedStates(v) ==
  /\ \E i \in DOMAIN selectedLinks(v) : selectedLinks(v)[i].isFavorite
  /\ \E i \in DOMAIN selectedLinks(v) : ~selectedLinks(v)[i].isFavorite

\* (mutant) always the toggle of the first selected link
shouldFavoriteOfFirst(v) ==
  IF selectedLinks(v) = <<>> THEN TRUE ELSE ~selectedLinks(v)[1].isFavorite

\* hasMixedStates ? true : !selectedLinks[0]?.isFavorite
shouldFavorite(v) ==
  IF hasMixedStates(v) THEN TRUE
  ELSE IF selectedLinks(v) = <<>> THEN TRUE
  ELSE ~selectedLinks(v)[1].isFavorite

\* the first k calls succeed; with k short of the selection the next write
\* to localStorage throws, and nothing in the handler catches it
handleBulkFavorite(v, k) ==
  /\ selectedIds[v] # <<>>
  /\ k \in 0..Len(selectedIds[v])
  /\ bulkWrite(v, updateEach(links[v], selectedIds[v], k,
                             [isFavorite |-> shouldFavorite(v)], now), k)
  /\ IF k = Len(selectedIds[v])
       THEN /\ toast' = [toast EXCEPT ![v] =
                 Toast(IF shouldFavorite(v) THEN "Added to favorites"
                       ELSE "Removed from favorites",
                       "default", <<Len(selectedIds[v])>>)]
            /\ lastOp' = Op("handleBulkFavorite", v, null, TRUE)
       ELSE /\ UNCHANGED toast
            /\ lastOp' = Op("handleBulkFavorite", v, null, FALSE)
  /\ UNCHANGED <<now, uuids, open, folders, settings, isHydrated, modalVars,
                 pageVars, barVars>>

handleBulkDelete(v) ==
  /\ selectedIds[v] # <<>>
  /\ showDeleteModal' = [showDeleteModal EXCEPT ![v] = TRUE]
  /\ lastOp' = Op("handleBulkDelete", v, null, TRUE)
  /\ UNCHANGED <<storeVars, pageVars, showMoveModal, moveSelectedFolderId,
                 isMoving, toast>>

\* BulkDeleteModal.handleConfirm: onConfirm (handleConfirmDelete), onClose
handleConfirm(v, k) ==
  /\ showDeleteModal[v]
  /\ k \in 0..Len(selectedIds[v])
  /\ bulkWrite(v, deleteEach(links[v], selectedIds[v], k, now), k)
  /\ IF k = Len(selectedIds[v])
       THEN /\ toast' = [toast EXCEPT ![v] =
                 Toast("Items deleted", "default", <<Len(selectedIds[v])>>)]
            /\ selectedIds' = [selectedIds EXCEPT ![v] = <<>>]
            /\ lastOp' = Op("handleConfirm", v, null, TRUE)
       ELSE /\ toast' = [toast EXCEPT ![v] =
                 Toast("Error", "destructive", <<>>)]
            /\ UNCHANGED selectedIds
            /\ lastOp' = Op("handleConfirm", v, null, FALSE)
  /\ showDeleteModal' = [showDeleteModal EXCEPT ![v] = FALSE]
  /\ UNCHANGED <<now, uuids, open, folders, settings, isHydrated, modalVars,
                 currentView, selectedFolderId, showMoveModal,
                 moveSelectedFolderId, isMoving>>

\* BulkDeleteModal: Cancel
cancelDelete(v) ==
  /\ showDeleteModal[v]
  /\ showDeleteModal' = [showDeleteModal EXCEPT ![v] = FALSE]
  /\ lastOp' = Op("cancelDelete", v, null, TRUE)
  /\ UNCHANGED <<storeVars, pageVars, showMoveModal, moveSelectedFolderId,
                 isMoving, toast>>

\* ------------------------------------------------------ bulk move modal
openMoveModal(v) ==
  /\ selectedIds[v] # <<>>
  /\ showMoveModal' = [showMoveModal EXCEPT ![v] = TRUE]
  /\ lastOp' = Op("openMoveModal", v, null, TRUE)
  /\ UNCHANGED <<storeVars, pageVars, showDeleteModal, moveSelectedFolderId,
                 isMoving, toast>>

\* a folder row: setSelectedFolderId(selectedFolderId === folderId ? null :
\* folderId); the None option is handleNone
handleFolderSelect(v, folderId) ==
  /\ showMoveModal[v]
  /\ moveSelectedFolderId' = [moveSelectedFolderId EXCEPT
       ![v] = IF @ = folderId THEN null ELSE folderId]
  /\ lastOp' = Op("handleFolderSelect", v, folderId, TRUE)
  /\ UNCHANGED <<storeVars, pageVars, showDeleteModal, showMoveModal,
                 isMoving, toast>>

handleNone(v) ==
  /\ showMoveModal[v]
  /\ moveSelectedFolderId' = [moveSelectedFolderId EXCEPT ![v] = null]
  /\ lastOp' = Op("handleNone", v, null, TRUE)
  /\ UNCHANGED <<storeVars, pageVars, showDeleteModal, showMoveModal,
                 isMoving, toast>>

\* setSelectedFolderId(null); ...; onClose()
closeMoveModal(v) ==
  /\ moveSelectedFolderId' = [moveSelectedFolderId EXCEPT ![v] = null]
  /\ showMoveModal' = [showMoveModal EXCEPT ![v] = FALSE]

handleCloseMove(v) ==
  /\ showMoveModal[v]
  /\ closeMoveModal(v)
  /\ lastOp' = Op("handleCloseMove", v, null, TRUE)
  /\ UNCHANGED <<storeVars, pageVars, showDeleteModal, isMoving, toast>>

\* the selected links already in the folder chosen in the modal
alreadyInFolder(v) ==
  SelectSeq(selectedLinks(v), LAMBDA l : l.folderId = moveSelectedFolderId[v])

\* the selected ids the loop calls updateLink on
moveCalls(v) ==
  SelectSeq(selectedIds[v], LAMBDA id :
    /\ id \in idsOf(links[v])
    /\ find(links[v], id).folderId # moveSelectedFolderId[v])

\* handleMoveComplete(movedCount)
handleMoveComplete(v, movedCount) ==
  IF movedCount > 0
    THEN /\ toast' = [toast EXCEPT ![v] =
              Toast("Items moved", "default", <<movedCount>>)]
         /\ selectedIds' = [selectedIds EXCEPT ![v] = <<>>]
    ELSE UNCHANGED <<toast, selectedIds>>

\* (mutant) the answer to the confirmation is not looked at
neverDeclined(v, proceed) == FALSE

\* alreadyInFolder.length > 0, and window.confirm answered with Cancel
declined(v, proceed) == alreadyInFolder(v) # <<>> /\ ~proceed

\* the Move button; proceed is the answer to window.confirm, k the number of
\* calls that succeed before a write to localStorage throws. isMoving is set
\* after the test of the target and reset on every way out after that
handleMove(v, proceed, k) ==
  /\ showMoveModal[v]
  /\ k \in 0..Len(moveCalls(v))
  /\ isMoving' = [isMoving EXCEPT
       ![v] = IF moveSelectedFolderId[v] = null THEN @ ELSE FALSE]
  /\ IF moveSelectedFolderId[v] = null \/ declined(v, proceed)
       THEN \* return
            /\ k = 0
            /\ lastOp' = Op("handleMove", v, moveSelectedFolderId[v], TRUE)
            /\ UNCHANGED <<links, durable, pending, toast, selectedIds,
                           showMoveModal, moveSelectedFolderId>>
       ELSE /\ bulkWrite(v, updateEach(links[v], moveCalls(v), k,
                     [folderId |-> moveSelectedFolderId[v]], now), k)
            /\ IF k = Len(moveCalls(v))
                 THEN /\ handleMoveComplete(v, Len(moveCalls(v)))
                      /\ closeMoveModal(v)
                      /\ lastOp' =
                           Op("handleMove", v, moveSelectedFolderId[v], TRUE)
                 ELSE /\ toast' = [toast EXCEPT ![v] =
                           Toast("Error", "destructive", <<>>)]
                      /\ lastOp' =
                           Op("handleMove", v, moveSelectedFolderId[v], FALSE)
                      /\ UNCHANGED <<selectedIds, showMoveModal,
                                     moveSelectedFolderId>>
  /\ UNCHANGED <<now, uuids, open, folders, settings, isHydrated, modalVars,
                 currentView, selectedFolderId, showDeleteModal>>

\* ------------------------------------------------------- bulk operations
\* no dialog of the bulk action bar covers the page
noDialog(v) == Hydrated(v) /\ ~showDeleteModal[v] /\ ~showMoveModal[v]

\* the link cards the page shows, outside trash and in trash
cards(v) == IF currentView[v] # "trash" THEN idsOf(filteredLinks(v)) ELSE {}
trashCards(v) == IF currentView[v] = "trash" THEN idsOf(filteredLinks(v)) ELSE {}

NextBulk ==
  \/ Tick /\ UNCHANGED uiVars
  \/ \E v \in Views : v \in open /\ loadFromStorage(v) /\ UNCHANGED uiVars
  \/ \E v \in Views : noDialog(v) /\ \E linkData \in LinkData :
       addLink(v, linkData) /\ UNCHANGED uiVars
  \/ \E v \in Views : noDialog(v) /\ \E view \in {"all", "trash"} :
       sidebarView(v, view)
  \/ \E v \in Views : noDialog(v) /\ \E id \in idsOf(filteredLinks(v)) :
       handleToggleSelect(v, id)
  \/ \E v \in Views : noDialog(v) /\ selectedIds[v] # <<>>
       /\ handleClearSelection(v)
  \/ \E v \in Views : noDialog(v) /\ \E id \in cards(v) :
       handleToggleFavorite(v, id)
  \/ \E v \in Views : noDialog(v) /\ \E id \in cards(v) : handleDelete(v, id)
  \/ \E v \in Views : noDialog(v) /\ \E id \in trashCards(v) :
       handlePermanentDelete(v, id)
  \/ \E v \in Views : noDialog(v) /\ \E k \in 0..MaxIds :
       handleBulkFavorite(v, k)
  \/ \E v \in Views : noDialog(v) /\ handleBulkDelete(v)
  \/ \E v \in Views : Hydrated(v) /\ \E k \in 0..MaxIds : handleConfirm(v, k)
  \/ \E v \in Views : Hydrated(v) /\ cancelDelete(v)
  \/ \E v \in Views : noDialog(v) /\ openMoveModal(v)
  \/ \E v \in Views : Hydrated(v) /\ \E id \in idsOf(folders[v]) :
       handleFolderSelect(v, id)
  \/ \E v \in Views : Hydrated(v) /\ handleNone(v)
  \/ \E v \in Views : Hydrated(v) /\ handleCloseMove(v)
  \/ \E v \in Views : Hydrated(v) /\ \E proceed \in BOOLEAN :
       \E k \in 0..MaxIds : handleMove(v, proceed, k)

SpecBulk == Init /\ [][NextBulk]_vars

\* ------------------------------------------- folders that hold links
\* the sidebar's delete button of a folder row: window.confirm, then the
\* store's deleteFolder, the selection of the folder dropped, a toast
handleDeleteFolder(v, folderId, confirmed) ==
  IF confirmed
    THEN /\ deleteFolder(v, folderId)
         /\ selectedFolderId' = [selectedFolderId EXCEPT
              ![v] = IF @ = folderId THEN null ELSE @]
         /\ toast' = [toast EXCEPT ![v] = Toast("Folder deleted", "default", <<>>)]
         /\ UNCHANGED <<currentView, selectedIds, barVars>>
    ELSE /\ lastOp' = Op("handleDeleteFolder", v, folderId, FALSE)
         /\ UNCHANGED <<storeVars, uiVars>>

\* the page of view v as a reload leaves it: the store reset and the
\* component state back at its initial values
reloadPage(v) ==
  /\ reload(v)
  /\ currentView' = [currentView EXCEPT ![v] = "all"]
  /\ selectedFolderId' = [selectedFolderId EXCEPT ![v] = null]
  /\ selectedIds' = [selectedIds EXCEPT ![v] = <<>>]
  /\ showDeleteModal' = [showDeleteModal EXCEPT ![v] = FALSE]
  /\ showMoveModal' = [showMoveModal EXCEPT ![v] = FALSE]
  /\ moveSelectedFolderId' = [moveSelectedFolderId EXCEPT ![v] = null]
  /\ isMoving' = [isMoving EXCEPT ![v] = FALSE]
  /\ toast' = [toast EXCEPT ![v] = null]

\* the data the add-link form submits, the folder picked among the folders
\* of the view or left empty
FormLinkData(v) ==
  { Spread(d, [folderId |-> f]) :
      d \in LinkData, f \in {null} \cup idsOf(folders[v]) }

\* partial objects a caller of the store passes to updateLink and to
\* updateFolder (Partial<Link>, Partial<Folder>): the creation stamp set to
\* the latest instant
LinkPartials == { [createdAt |-> toISOString(MaxTime)] }
FolderPartials == { [createdAt |-> toISOString(MaxTime)] }

\* one view opened on a store that holds a root folder and one sub-folder
InitTree ==
  /\ durable = setItem([k \in {} |-> Garbage], FOLDERS, JArray(FolderTree(1)))
  /\ now = 0
  /\ uuids = 0
  /\ open = {1}
  /\ pending = [v \in Views |-> FALSE]
  /\ InitialState
  /\ lastOp = Op("create", 1, null, TRUE)

NextTree ==
  \/ Tick /\ UNCHANGED uiVars
  \/ \E v \in Views : v \in open /\ loadFromStorage(v) /\ UNCHANGED uiVars
  \/ \E v \in Views : Hydrated(v) /\ \E linkData \in FormLinkData(v) :
       addLink(v, linkData) /\ UNCHANGED uiVars
  \/ \E v \in Views : Hydrated(v) /\ \E id \in idsOf(links[v]) : deleteLink(v, id)
       /\ UNCHANGED uiVars
  \/ \E v \in Views : Hydrated(v) /\ \E id \in idsOf(links[v]) : restoreLink(v, id)
       /\ UNCHANGED uiVars
  \/ \E v \in Views : Hydrated(v) /\ \E id \in idsOf(folders[v]) :
       sidebarFolder(v, id)
  \/ \E v \in Views : Hydrated(v) /\ \E id \in idsOf(folders[v]) :
       \E confirmed \in BOOLEAN : handleDeleteFolder(v, id, confirmed)
  \/ \E v \in Views : Hydrated(v) /\ reloadPage(v)

SpecTree == InitTree /\ [][NextTree]_vars

\* --------------------------------------------------- the store's callers
\* every operation of the store that stamps a link or a folder, called with
\* the partial objects its signature admits
NextStamps ==
  \/ Tick /\ UNCHANGED uiVars
  \/ \E v \in Views : v \in open /\ loadFromStorage(v) /\ UNCHANGED uiVars
  \/ \E v \in Views : Hydrated(v) /\ \E linkData \in LinkData : addLink(v, linkData)
       /\ UNCHANGED uiVars
  \/ \E v \in Views : Hydrated(v) /\ \E id \in idsOf(links[v]) :
       \E updates \in LinkPartials : updateLink(v, id, updates)
       /\ UNCHANGED uiVars
  \/ \E v \in Views : Hydrated(v) /\ \E id \in idsOf(links[v]) : deleteLink(v, id)
       /\ UNCHANGED uiVars
  \/ \E v \in Views : Hydrated(v) /\ \E id \in idsOf(links[v]) : restoreLink(v, id)
       /\ UNCHANGED uiVars
  \/ \E v \in Views : Hydrated(v) /\ \E id \in idsOf(links[v]) : toggleFavorite(v, id)
       /\ UNCHANGED uiVars
  \/ \E v \in Views : Hydrated(v) /\ \E folderData \in FolderData :
       addFolder(v, folderData) /\ UNCHANGED uiVars
  \/ \E v \in Views : Hydrated(v) /\ \E id \in idsOf(folders[v]) :
       \E updates \in FolderPartials : updateFolder(v, id, updates)
       /\ UNCHANGED uiVars
  \/ \E v \in Views : Hydrated(v) /\ \E id \in idsOf(folders[v]) : deleteFolder(v, id)
       /\ UNCHANGED uiVars
  \/ \E v \in Views : Hydrated(v) /\ reload(v) /\ UNCHANGED uiVars

SpecStamps == Init /\ [][NextStamps]_vars

\* ------------------------------------------------- a full localStorage
\* the store actions when the write to localStorage throws: the identifier
\* and the stamps were taken before set() was called
addLinkThrows(v, linkData) ==
  /\ uuids < MaxIds
  /\ \E t2 \in Later(now) :
       /\ setLinksThrows(v, addLinkF(links[v], linkData,
                                     randomUUID(uuids + 1), now, t2))
       /\ now' = t2
  /\ uuids' = uuids + 1
  /\ lastOp' = Op("addLink", v, randomUUID(uuids + 1), FALSE)
  /\ UNCHANGED <<open, folders, settings, isHydrated, modalVars>>

deleteLinkThrows(v, id) ==
  /\ \E t2 \in Later(now) :
       /\ setLinksThrows(v, deleteLinkF(links[v], id, now, t2))
       /\ now' = t2
  /\ lastOp' = Op("deleteLink", v, id, FALSE)
  /\ UNCHANGED <<uuids, open, folders, settings, isHydrated, modalVars>>

toggleFavoriteThrows(v, id) ==
  /\ setLinksThrows(v, toggleFavoriteF(links[v], id, now))
  /\ lastOp' = Op("toggleFavorite", v, id, FALSE)
  /\ UNCHANGED <<now, uuids, open, folders, settings, isHydrated, modalVars>>

addFolderThrows(v, folderData) ==
  /\ uuids < MaxIds
  /\ \E t2 \in Later(now) :
       /\ setFoldersThrows(v, addFolderF(folders[v], folderData,
                                         randomUUID(uuids + 1), now, t2))
       /\ now' = t2
  /\ uuids' = uuids + 1
  /\ lastOp' = Op("addFolder", v, randomUUID(uuids + 1), FALSE)
  /\ UNCHANGED <<open, links, settings, isHydrated, modalVars>>

\* one view whose writes may meet a full localStorage at any time
NextQuota ==
  \/ Tick /\ UNCHANGED uiVars
  \/ \E v \in Views : v \in open /\ loadFromStorage(v) /\ UNCHANGED uiVars
  \/ \E v \in Views : Hydrated(v) /\ \E linkData \in LinkData : addLink(v, linkData)
       /\ UNCHANGED uiVars
  \/ \E v \in Views : Hydrated(v) /\ \E linkData \in LinkData :
       addLinkThrows(v, linkData) /\ UNCHANGED uiVars
  \/ \E v \in Views : Hydrated(v) /\ \E id \in idsOf(links[v]) : deleteLink(v, id)
       /\ UNCHANGED uiVars
  \/ \E v \in Views : Hydrated(v) /\ \E id \in idsOf(links[v]) :
       deleteLinkThrows(v, id) /\ UNCHANGED uiVars
  \/ \E v \in Views : Hydrated(v) /\ \E id \in idsOf(links[v]) : toggleFavorite(v, id)
       /\ UNCHANGED uiVars
  \/ \E v \in Views : Hydrated(v) /\ \E id \in idsOf(links[v]) :
       toggleFavoriteThrows(v, id) /\ UNCHANGED uiVars
  \/ \E v \in Views : Hydrated(v) /\ \E folderData \in FolderData :
       addFolder(v, folderData) /\ UNCHANGED uiVars
  \/ \E v \in Views : Hydrated(v) /\ \E folderData \in FolderData :
       addFolderThrows(v, folderData) /\ UNCHANGED uiVars
  \/ \E v \in Views : Hydrated(v) /\ reload(v) /\ UNCHANGED uiVars

SpecQuota == Init /\ [][NextQuota]_vars

\* ------------------------------------------- a page that is not hydrated yet
\* the links an earlier session left in localStorage
PriorLinks ==
  addLinkF(<<>>, CHOOSE d \in LinkData : TRUE, PriorId(0), 0, 0)

\* one view opened on the store of an earlier session: a link and a folder
InitEarly ==
  /\ durable = setItem(setItem([k \in {} |-> Garbage], LINKS, JArray(PriorLinks)),
                       FOLDERS, JArray(FolderTree(0)))
  /\ now = 0
  /\ uuids = 0
  /\ open = {1}
  /\ pending = [v \in Views |-> FALSE]
  /\ InitialState
  /\ lastOp = Op("create", 1, null, TRUE)

\* the store actions called on an open view whether or not loadFromStorage
\* has run: no action of the store reads isHydrated
NextEarly ==
  \/ Tick /\ UNCHANGED uiVars
  \/ \E v \in Views : v \in open /\ loadFromStorage(v) /\ UNCHANGED uiVars
  \/ \E v \in Views : v \in open /\ \E linkData \in LinkData : addLink(v, linkData)
       /\ UNCHANGED uiVars
  \/ \E v \in Views : v \in open /\ \E id \in idsOf(links[v]) : deleteLink(v, id)
       /\ UNCHANGED uiVars
  \/ \E v \in Views : v \in open /\ \E id \in idsOf(links[v]) : toggleFavorite(v, id)
       /\ UNCHANGED uiVars
  \/ \E v \in Views : v \in open /\ \E id \in idsOf(links[v]) :
       permanentlyDeleteLink(v, id) /\ UNCHANGED uiVars
  \/ \E v \in Views : v \in open /\ reload(v) /\ UNCHANGED uiVars

SpecEarly == InitEarly /\ [][NextEarly]_vars

\* ---------------------------------------------------------- select all
\* BulkActionBar.allSelected: as many selected ids as visible items
allSelected(v) ==
  Len(selectedIds[v]) = Len(filteredLinks(v)) /\ Len(filteredLinks(v)) > 0

\* filteredLinks.map(link => link.id)
visibleLinkIds(v) == [i \in DOMAIN filteredLinks(v) |-> filteredLinks(v)[i].id]

\* Home.handleSelectAllEvent: the visible ids taken out of the selection when
\* all of them are in it, else the missing ones appended
handleSelectAllEvent(v) ==
  LET prev == selectedIds[v]
      inPrev(id) == \E i \in DOMAIN prev : prev[i] = id
      visible(id) == \E i \in DOMAIN visibleLinkIds(v) : visibleLinkIds(v)[i] = id
  IN selectedIds' = [selectedIds EXCEPT
       ![v] = IF \A i \in DOMAIN visibleLinkIds(v) : inPrev(visibleLinkIds(v)[i])
                THEN SelectSeq(prev, LAMBDA id : ~visible(id))
                ELSE prev \o SelectSeq(visibleLinkIds(v), LAMBDA id : ~inPrev(id))]

\* the select-all checkbox of the bar, which is shown while something is
\* selected
handleSelectAll(v) ==
  /\ selectedIds[v] # <<>>
  /\ IF allSelected(v)
       THEN selectedIds' = [selectedIds EXCEPT ![v] = <<>>]
       ELSE handleSelectAllEvent(v)
  /\ lastOp' = Op("handleSelectAll", v, null, TRUE)
  /\ UNCHANGED <<storeVars, currentView, selectedFolderId, barVars, toast>>

\* the page with its checkboxes, the cards' delete button and select all
NextSelect ==
  \/ Tick /\ UNCHANGED uiVars
  \/ \E v \in Views : v \in open /\ loadFromStorage(v) /\ UNCHANGED uiVars
  \/ \E v \in Views : Hydrated(v) /\ \E linkData \in LinkData :
       addLink(v, linkData) /\ UNCHANGED uiVars
  \/ \E v \in Views : Hydrated(v) /\ \E view \in {"all", "trash"} :
       sidebarView(v, view)
  \/ \E v \in Views : Hydrated(v) /\ \E id \in idsOf(filteredLinks(v)) :
       handleToggleSelect(v, id)
  \/ \E v \in Views : Hydrated(v) /\ \E id \in cards(v) : handleDelete(v, id)
  \/ \E v \in Views : Hydrated(v) /\ handleSelectAll(v)

SpecSelect == Init /\ [][NextSelect]_vars

\* ------------------------------------------------------ the sidebar's rows
\* the folders the sidebar renders: the root folders and, under each, the
\* folders whose parentId is that root
sidebarRows(v) ==
  LET roots == { folders[v][i].id :
                   i \in { j \in DOMAIN folders[v] : folders[v][j].parentId = null } }
  IN roots \cup { folders[v][i].id :
                    i \in { j \in DOMAIN folders[v] : folders[v][j].parentId \in roots } }

\* the user clicks what the sidebar shows: the quick-access entries, the
\* folder rows and the delete entry of their menus
NextSidebar ==
  \/ Tick /\ UNCHANGED uiVars
  \/ \E v \in Views : v \in open /\ loadFromStorage(v) /\ UNCHANGED uiVars
  \/ \E v \in Views : Hydrated(v) /\ \E linkData \in FormLinkData(v) :
       addLink(v, linkData) /\ UNCHANGED uiVars
  \/ \E v \in Views : Hydrated(v) /\ \E view \in {"all", "favorites", "trash"} :
       sidebarView(v, view)
  \/ \E v \in Views : Hydrated(v) /\ \E id \in sidebarRows(v) :
       sidebarFolder(v, id)
  \/ \E v \in Views : Hydrated(v) /\ \E id \in sidebarRows(v) :
       \E confirmed \in BOOLEAN : handleDeleteFolder(v, id, confirmed)
  \/ \E v \in Views : Hydrated(v) /\ reloadPage(v)

SpecSidebar == InitTree /\ [][NextSidebar]_vars

\* ================================================================ claims
LinkMutations ==
  {"addLink", "updateLink", "deleteLink", "restoreLink",
   "permanentlyDeleteLink", "toggleFavorite"}
FolderMutations == {"addFolder", "updateFolder", "deleteFolder"}

\* C1: in a single view, after every completed store mutation the durable
\* record of the mutated collection is the in-memory collection, and no
\* hydrated state has memory and durable storage differ
C1_MemoryEqualsDurable ==
  \A v \in open :
    isHydrated[v] =>
      /\ links[v] = getItem(durable, LINKS, <<>>)
      /\ folders[v] = getItem(durable, FOLDERS, <<>>)
      /\ settings[v] = getItem(durable, SETTINGS, DEFAULT_SETTINGS)
      /\ lastOp.op \in LinkMutations =>
           LINKS \in DOMAIN durable /\ durable[LINKS] = JArray(links[v])
      /\ lastOp.op \in FolderMutations =>
           FOLDERS \in DOMAIN durable /\ durable[FOLDERS] = JArray(folders[v])
      /\ lastOp.op = "updateSettings" =>
           SETTINGS \in DOMAIN durable
           /\ durable[SETTINGS] = JObject(settings[v])

\* a favourite link in trash, just produced by a link mutation, beside a
\* renamed folder and changed settings
C1_Witness ==
  /\ isHydrated[1]
  /\ lastOp.op = "toggleFavorite"
  /\ \E i \in DOMAIN links[1] :
       links[1][i].isFavorite /\ links[1][i].deletedAt # null
  /\ \E i \in DOMAIN folders[1] : folders[1][i].name = "m"
  /\ settings[1].viewMode = "list"

\* every field but updatedAt agrees
sameButUpdatedAt(a, b) ==
  /\ DOMAIN a = DOMAIN b
  /\ \A f \in DOMAIN a \ {"updatedAt"} : a[f] = b[f]

\* restoreLink(id) has just run right after deleteLink(id)
deletedThenRestored ==
  /\ lastOp.op = "restoreLink"
  /\ lastOp.before # null
  /\ lastOp.id \in idsOf(lastOp.before[1])

\* the links now, against the links before the deleteLink
restoredLikeBefore ==
  LET before == lastOp.before[1]
      after == links[lastOp.view]
  IN /\ Len(after) = Len(before)
     /\ \A i \in DOMAIN before :
          IF before[i].id = lastOp.id
            THEN /\ after[i].deletedAt = null
                 /\ sameButUpdatedAt(after[i], before[i])
            ELSE after[i] = before[i]

\* C5 as stated: for every link of the collection, deleteLink(id) followed
\* by restoreLink(id) yields deletedAt = null and every field other than
\* updatedAt as before the deleteLink, every other link unchanged
C5_Original == deletedThenRestored => restoredLikeBefore

\* C5 amended: the same for every link that is active (deletedAt = null)
\* before the deleteLink
C5_ActiveLinkRestored ==
  (deletedThenRestored
     /\ find(lastOp.before[1], lastOp.id).deletedAt = null)
  => restoredLikeBefore

\* an active favourite link was deleted and restored, beside another link
C5_Witness ==
  /\ deletedThenRestored
  /\ find(lastOp.before[1], lastOp.id).deletedAt = null
  /\ find(lastOp.before[1], lastOp.id).isFavorite
  /\ Len(links[1]) = 2

\* what a reload of view v would read now
memoryIsDurable(v) ==
  /\ links[v] = getItem(durable, LINKS, <<>>)
  /\ folders[v] = getItem(durable, FOLDERS, <<>>)

\* C2 as stated: with two views open and hydrated, once view B has received
\* the change notifications of view A's mutations, B's in-memory collections
\* show them, without a reload
C2_Original ==
  \A v \in open : (isHydrated[v] /\ ~pending[v]) => memoryIsDurable(v)

\* the identifiers of the folders of a collection that have more sub-folders
\* than the limit allows (only a folder some parentId names has sub-folders)
overLimit(fs) ==
  { p \in idsOf(fs) \cap { fs[i].parentId : i \in DOMAIN fs } :
      Cardinality({ j \in DOMAIN fs : fs[j].parentId = p })
        > MAX_SUB_FOLDERS_PER_FOLDER }

FanoutOK ==
  /\ \A v \in open : overLimit(folders[v]) = {}
  /\ overLimit(getItem(durable, FOLDERS, <<>>)) = {}

\* C3 as stated: in every reachable state every folder has at most
\* MAX_SUB_FOLDERS_PER_FOLDER sub-folders, whatever the sequence of modal
\* creations, edits, deletions, imports and reloads
C3_Original == FanoutOK

\* an import of a snapshot in which some folder exceeds the limit
importsOverLimit ==
  \E jsonString \in {AtLimitFile, OverLimitFile} :
    /\ validSnapshot(jsonString)
    /\ overLimit(Parse(jsonString.fields.folders)) # {}
    /\ \E v \in Views : importData(v, jsonString)

\* the step writes the folders, in memory or in localStorage
writesFolders == folders' # folders \/ durable' # durable

\* C3 amended: the limit holds at the start and is kept by every modal
\* creation, edit, deletion, reload and import of a snapshot that itself
\* respects the limit
C3_LimitKeptButByImport ==
  /\ FanoutOK
  /\ [][(writesFolders /\ ~importsOverLimit /\ FanoutOK) => FanoutOK']_vars

\* "add sub-folder" was just refused on a root with exactly the limit
C3_Witness ==
  /\ lastOp.op = "handleAddSubFolder"
  /\ ~lastOp.ok
  /\ ~isCreateFolderModalOpen[1]
  /\ Cardinality({ i \in DOMAIN folders[1] :
                     folders[1][i].parentId = lastOp.id })
       = MAX_SUB_FOLDERS_PER_FOLDER

\* C4 as stated: every folder with a non-null parentId references a folder
\* that exists in the collection and whose own parentId is null
C4_Original ==
  \A v \in open : \A i \in DOMAIN folders[v] :
    folders[v][i].parentId # null =>
      /\ folders[v][i].parentId \in idsOf(folders[v])
      /\ find(folders[v], folders[v][i].parentId).parentId = null

depthOK(fs) ==
  \A i \in DOMAIN fs :
    (fs[i].parentId # null /\ fs[i].parentId \in idsOf(fs))
      => find(fs, fs[i].parentId).parentId = null

\* C4 amended: every folder with a non-null parentId whose parent is still in
\* the collection has a root parent (the parent itself may have been deleted)
C4_DepthAtMostTwo ==
  /\ \A v \in open : depthOK(folders[v])
  /\ depthOK(getItem(durable, FOLDERS, <<>>))

\* the modal just refused to create a folder under a sub-folder
C4_Witness ==
  /\ lastOp.op = "onSubmit"
  /\ ~lastOp.ok
  /\ lastOp.id \in idsOf(folders[1])
  /\ find(folders[1], lastOp.id).parentId # null
  /\ find(folders[1], lastOp.id).parentId \in idsOf(folders[1])

\* the identifiers crypto.randomUUID has handed out so far
MintedIds == { randomUUID(n) : n \in 1..uuids }

\* no link with this identifier in memory or in the durable links record
absent(id) ==
  /\ \A v \in open : id \notin idsOf(links[v])
  /\ id \notin idsOf(getItem(durable, LINKS, <<>>))

\* the list with the element of this identifier taken out of its position
without(ls, id) ==
  LET i == CHOOSE i \in DOMAIN ls : ls[i].id = id
  IN SubSeq(ls, 1, i - 1) \o SubSeq(ls, i + 1, Len(ls))

\* permanentlyDeleteLink(id) leaves no link with that id, in memory or in
\* the durable record, and the other links as they were, in their order
purgeRemoves ==
  \A v \in Views : \A id \in idsOf(links[v]) :
    permanentlyDeleteLink(v, id) =>
      /\ absent(id)'
      /\ links'[v] = without(links[v], id)
      /\ durable'[LINKS] = JArray(links'[v])

\* an import of a snapshot that holds a link with this identifier
importsLink(id) ==
  \E jsonString \in ImportFiles :
    /\ validSnapshot(jsonString)
    /\ id \in idsOf(Parse(jsonString.fields.links))
    /\ \E v \in Views : importData(v, jsonString)

C7_UnknownIdIsNoOp ==
  [][\A v \in Views :
       ( \/ /\ UnknownId \notin idsOf(links[v])
             /\ \/ updateLink(v, UnknownId, [isFavorite |-> TRUE])
                \/ deleteLink(v, UnknownId)
                \/ restoreLink(v, UnknownId)
                \/ toggleFavorite(v, UnknownId)
                \/ permanentlyDeleteLink(v, UnknownId)
          \/ /\ UnknownId \notin idsOf(folders[v])
             /\ \/ \E updates \in FolderUpdates :
                     updateFolder(v, UnknownId, updates)
                \/ deleteFolder(v, UnknownId) )
       => /\ lastOp'.ok
          /\ links' = links /\ folders' = folders /\ settings' = settings
          /\ getItem(durable', LINKS, <<>>) = links[v]
          /\ getItem(durable', FOLDERS, <<>>) = folders[v]]_vars

\* deleteFolder was just called with the unknown identifier on a store that
\* holds a link and two folders
C7_Witness ==
  /\ lastOp.op = "deleteFolder"
  /\ lastOp.id = UnknownId
  /\ lastOp.ok
  /\ Len(links[1]) = 1
  /\ Len(folders[1]) = 2

\* C8 as stated: for every store state, exportData, then clearing storage,
\* then importData of that snapshot leaves links, folders and settings
\* identical to those at export time
C8_Original ==
  \A v \in open :
    isHydrated[v] =>
      LET snapshot == exportDataText(durable)
          store == importDataStore(clear(durable), snapshot)
      IN /\ validSnapshot(snapshot)
         /\ loadedLinks(store) = links[v]
         /\ loadedFolders(store, now) = folders[v]
         /\ loadedSettings(store) = settings[v]

\* C9: importData of a snapshot that fails validation returns false and
\* leaves the durable records and the in-memory collections unchanged;
\* importData of a valid snapshot returns true and leaves in memory what
\* loadFromStorage reads from the durable records
C9_ImportContract ==
  [][\A v \in Views : \A jsonString \in ImportFiles :
       importData(v, jsonString) =>
         IF jsonString \in {MissingFoldersFile, Garbage}
           THEN /\ ~lastOp'.ok
                /\ durable' = durable
                /\ links' = links /\ folders' = folders
                /\ settings' = settings
           ELSE /\ lastOp'.ok
                /\ links'[v] = getItem(durable', LINKS, <<>>)
                /\ folders'[v] = getItem(durable', FOLDERS, <<>>)
                /\ settings'[v] = getItem(durable', SETTINGS, DEFAULT_SETTINGS)
                /\ durable'[LINKS] = jsonString.fields.links
                /\ durable'[SETTINGS] = jsonString.fields.settings]_vars

\* an import was just refused on a store that holds a link
C9_Witness ==
  /\ lastOp.op = "importData"
  /\ ~lastOp.ok
  /\ Len(links[1]) = 1
  /\ durable[LINKS] = JArray(links[1])

\* C10: loadFromStorage on an empty durable store ends hydrated, with one
\* folder per entry of the platform-folder catalog, each a platform folder
\* at the root, and with that collection in the durable folders record
C10_EmptyStoreLoad ==
  [][\A v \in Views :
       (DOMAIN durable = {} /\ loadFromStorage(v)) =>
         /\ isHydrated'[v]
         /\ Len(folders'[v]) = Len(PLATFORM_FOLDERS)
         /\ \A i \in DOMAIN PLATFORM_FOLDERS :
              /\ folders'[v][i].platform = PLATFORM_FOLDERS[i].platform
              /\ folders'[v][i].isPlatformFolder
              /\ folders'[v][i].parentId = null
         /\ FOLDERS \in DOMAIN durable'
         /\ durable'[FOLDERS] = JArray(folders'[v])]_vars

\* the view was just hydrated from a localStorage that held nothing
C10_Witness ==
  /\ lastOp.op = "loadFromStorage"
  /\ isHydrated[1]
  /\ DOMAIN durable = {FOLDERS}
  /\ links[1] = <<>>
  /\ Len(folders[1]) = Len(PLATFORM_FOLDERS)
  /\ \A i \in DOMAIN folders[1] : folders[1][i].isPlatformFolder

\* the selection of view v as a set
selection(v) == { selectedIds[v][i] : i \in DOMAIN selectedIds[v] }

\* the step is a bulk favorite of view v that ran to its end
bulkFavorited(v) ==
  /\ lastOp'.op = "handleBulkFavorite"
  /\ handleBulkFavorite(v, Len(selectedIds[v]))

\* some selected link is a favourite and some selected link is not
mixedSelection(v) ==
  \E i, j \in DOMAIN links[v] :
    /\ {links[v][i].id, links[v][j].id} \subseteq selection(v)
    /\ links[v][i].isFavorite /\ ~links[v][j].isFavorite

\* C11: bulk favorite on a non-empty selection makes every selected link a
\* favourite when the selection is mixed and negates the shared state when it
\* is uniform; all selected links end alike and no unselected link changes
C11_BulkFavorite ==
  [][\A v \in Views :
       bulkFavorited(v) =>
         /\ Len(links'[v]) = Len(links[v])
         /\ \A i \in DOMAIN links[v] :
              IF links[v][i].id \in selection(v)
                THEN /\ links'[v][i].isFavorite =
                          (mixedSelection(v) \/ ~links[v][i].isFavorite)
                     /\ \A j \in DOMAIN links[v] :
                          links[v][j].id \in selection(v) =>
                            links'[v][j].isFavorite = links'[v][i].isFavorite
                ELSE links'[v][i] = links[v][i]]_vars

\* two selected links, one of them in trash, are favourites after a bulk
\* favorite
C11_Witness ==
  /\ lastOp.op = "handleBulkFavorite"
  /\ lastOp.ok
  /\ Len(selectedIds[1]) = 2
  /\ Len(selectedLinks(1)) = 2
  /\ \A i \in DOMAIN links[1] : links[1][i].isFavorite
  /\ \E i \in DOMAIN links[1] : links[1][i].deletedAt # null

\* the step is a bulk move of view v, confirmed where asked, that ran to its
\* end
bulkMoved(v) ==
  /\ lastOp'.op = "handleMove"
  /\ lastOp'.ok
  /\ \E k \in 0..MaxIds : handleMove(v, TRUE, k)

\* C12 as stated: a bulk move to a folder id or to "none" (null) leaves every
\* selected link that was elsewhere in the target, does not re-write a
\* selected link already in the target, and changes no unselected link
C12_Original ==
  [][\A v \in Views :
       bulkMoved(v) =>
         /\ Len(links'[v]) = Len(links[v])
         /\ \A i \in DOMAIN links[v] :
              IF links[v][i].id \in selection(v)
                   /\ links[v][i].folderId # moveSelectedFolderId[v]
                THEN links'[v][i].folderId = moveSelectedFolderId[v]
                ELSE links'[v][i] = links[v][i]]_vars

\* the step is a confirmed bulk delete of view v in which k calls succeeded
bulkDeleted(v, k) ==
  /\ lastOp'.op = "handleConfirm"
  /\ handleConfirm(v, k)

\* C13: a confirmed bulk delete removes no link: the number of links is
\* unchanged, every selected link ends with deletedAt non-null and no
\* unselected link changes; a cancelled confirmation changes no link
C13_BulkDeleteIsSoft ==
  [][\A v \in Views :
       /\ \A k \in 0..MaxIds :
            bulkDeleted(v, k) =>
              /\ Len(links'[v]) = Len(links[v])
              /\ \A i \in DOMAIN links[v] :
                   /\ links'[v][i].id = links[v][i].id
                   /\ links[v][i].id \notin selection(v) =>
                        links'[v][i] = links[v][i]
                   /\ (links[v][i].id \in selection(v)
                          /\ k = Len(selectedIds[v])) =>
                        links'[v][i].deletedAt # null
              /\ idsOf(getItem(durable', LINKS, <<>>)) = idsOf(links[v])
       /\ (lastOp'.op = "cancelDelete" /\ cancelDelete(v)) =>
            links' = links /\ durable' = durable]_vars

\* one of two active links was just deleted in bulk; the other is untouched
C13_Witness ==
  /\ lastOp.op = "handleConfirm"
  /\ lastOp.ok
  /\ toast[1] = Toast("Items deleted", "default", <<1>>)
  /\ Len(links[1]) = 2
  /\ \E i, j \in DOMAIN links[1] :
       /\ links[1][i].deletedAt = toISOString(now)
       /\ links[1][j].deletedAt = null

\* the number of links of view v that the step changed in the field f
changedIn(v, f) ==
  Cardinality({ i \in DOMAIN links[v] \cap DOMAIN links'[v] :
                  links'[v][i][f] # links[v][i][f] })

\* C14 as stated: the count a bulk favorite, bulk move or bulk delete reports
\* is the number of links whose state it changed, not the size of the
\* selection
C14_Original ==
  [][\A v \in Views :
       /\ bulkFavorited(v) =>
            toast'[v].counts = <<changedIn(v, "isFavorite")>>
       /\ bulkDeleted(v, Len(selectedIds[v])) =>
            toast'[v].counts =
              <<Cardinality({ i \in DOMAIN links[v] :
                                /\ links[v][i].deletedAt = null
                                /\ links'[v][i].deletedAt # null })>>
       /\ (bulkMoved(v) /\ toast'[v] # toast[v]) =>
            toast'[v].counts = <<changedIn(v, "folderId")>>]_vars

\* C15 as stated: after every bulk favorite, bulk move (also one in which no
\* link needed moving) and bulk delete that completes without error the
\* selection is empty
C15_Original ==
  [][\A v \in Views :
       ( \/ bulkFavorited(v)
         \/ bulkDeleted(v, Len(selectedIds[v]))
         \/ (bulkMoved(v) /\ moveSelectedFolderId[v] # null) )
       => selectedIds'[v] = <<>>]_vars

\* the step is a bulk operation of view v on n items whose call k + 1 failed
bulkFailed(v, k, n) ==
  /\ ~lastOp'.ok
  /\ k < n
  /\ \/ n = Len(selectedIds[v]) /\ handleBulkFavorite(v, k)
     \/ n = Len(selectedIds[v]) /\ handleConfirm(v, k)
     \/ n = Len(moveCalls(v)) /\ handleMove(v, TRUE, k)

\* C16 as stated: when an individual mutation of a bulk operation fails, the
\* mutations already applied stay applied, the failure is reported as an
\* error, and the report states how many items succeeded and how many were
\* requested
C16_Original ==
  [][\A v \in Views : \A k \in 0..MaxIds : \A n \in 1..MaxIds :
       bulkFailed(v, k, n) =>
         /\ handleConfirm(v, k) =>
              \A i \in 1..k : \A j \in DOMAIN links'[v] :
                links'[v][j].id = selectedIds[v][i] =>
                  links'[v][j].deletedAt # null
         /\ toast'[v] # null
         /\ toast'[v].variant = "destructive"
         /\ toast'[v].counts = <<k, n>>]_vars

\* ------------------------------------------------------------------- C17
\* the step is deleteFolder(id) of view v, confirmed in the sidebar
folderDeleted(v, id) ==
  /\ lastOp' = Op("deleteFolder", v, id, TRUE)
  /\ handleDeleteFolder(v, id, TRUE)

\* C17: deleteFolder(id) removes the folder with that id and nothing else.
\* The links of the view and the durable links record are what they were,
\* links whose folderId is id included; every other folder is still there,
\* field by field what it was and in the same order, folders whose parentId
\* is id included; the durable folders record is the new list.
C17_DeleteFolderRemovesOnlyIt ==
  [][\A v \in Views : \A id \in idsOf(folders[v]) :
       folderDeleted(v, id) =>
         /\ links'[v] = links[v]
         /\ \A key \in DOMAIN durable' \ {FOLDERS} :
              key \in DOMAIN durable /\ durable'[key] = durable[key]
         /\ Len(folders'[v]) =
              Len(folders[v])
                - Cardinality({ i \in DOMAIN folders[v] : folders[v][i].id = id })
         /\ \A i, j \in DOMAIN folders[v] :
              (i < j /\ folders[v][i].id # id /\ folders[v][j].id # id) =>
                \E a, b \in DOMAIN folders'[v] :
                  /\ a < b
                  /\ folders'[v][a] = folders[v][i]
                  /\ folders'[v][b] = folders[v][j]
         /\ \A i \in DOMAIN folders[v] :
              folders[v][i].id # id =>
                \E a \in DOMAIN folders'[v] : folders'[v][a] = folders[v][i]
         /\ durable'[FOLDERS] = JArray(folders'[v])]_vars

\* the root folder was deleted while it held a link and a sub-folder, and
\* both still name it
C17_Witness ==
  /\ lastOp.op = "deleteFolder"
  /\ lastOp.id \notin idsOf(folders[1])
  /\ \E i \in DOMAIN links[1] : links[1][i].folderId = lastOp.id
  /\ \E i \in DOMAIN folders[1] : folders[1][i].parentId = lastOp.id

\* ------------------------------------------------------------------- C18
\* the triples the claim speaks of in view v: the positions of a root folder
\* A, of a folder B directly below it and of an active link L filed in B
underRoot(v) ==
  { <<a, b, l>> \in (DOMAIN folders[v]) \X (DOMAIN folders[v]) \X (DOMAIN links[v]) :
      /\ folders[v][a].parentId = null
      /\ folders[v][b].parentId = folders[v][a].id
      /\ links[v][l].deletedAt = null
      /\ links[v][l].folderId = folders[v][b].id }

\* C18: for a root folder A, a folder B with parentId = A.id and an active
\* link L with folderId = B.id, the list the page shows with A selected in
\* the 'all' view and an empty search box holds L, the list the page shows
\* right now holds L when that is what is selected, and the count of A counts
\* every active link filed in A or in B.
C18_LinkUnderRootIsShown ==
  \A v \in Views : \A x \in underRoot(v) :
    LET A == folders[v][x[1]]
        B == folders[v][x[2]]
        L == links[v][x[3]]
        shown == filteredLinksOf(links[v], folders[v], "all", A.id, "")
    IN /\ \E i \in DOMAIN shown : shown[i] = L
       /\ (currentView[v] = "all" /\ selectedFolderId[v] = A.id) =>
            \E i \in DOMAIN filteredLinks(v) : filteredLinks(v)[i] = L
       /\ getFolderCount(v, A.id) >=
            Cardinality({ i \in DOMAIN links[v] :
                            /\ links[v][i].deletedAt = null
                            /\ links[v][i].folderId \in {A.id, B.id} })

\* the sidebar row of the root was clicked while the sub-folder held two
\* active links; the page shows both and the count of the root is 2
C18_Witness ==
  /\ lastOp.op = "sidebarFolder"
  /\ currentView[1] = "all"
  /\ \E x \in underRoot(1) :
       /\ selectedFolderId[1] = folders[1][x[1]].id
       /\ getFolderCount(1, folders[1][x[1]].id) = 2
       /\ \A i \in DOMAIN links[1] :
            links[1][i].folderId = folders[1][x[2]].id
       /\ Len(filteredLinks(1)) = 2

\* ------------------------------------------------------------------- C19
\* the step is deleteLink(id) of view v and the operation before it in that
\* view was deleteLink(id) too: the second of two applications
deletedAgain(v, id) ==
  /\ lastOp.op = "deleteLink"
  /\ lastOp.view = v
  /\ lastOp.id = id
  /\ deleteLink(v, id)

\* C19 (as stated): deleteLink is idempotent. The store after deleteLink(id)
\* applied twice, at two instants, is the store after deleteLink(id) applied
\* once: the second application leaves the links of the view and the durable
\* store as the first left them.
C19_Original ==
  [][\A v \in Views : \A id \in idsOf(links[v]) :
       deletedAgain(v, id) => links'[v] = links[v] /\ durable' = durable]_vars

\* ------------------------------------------------------------------- C20
\* updatedAt is not before createdAt in every element of the list
stampsInOrder(list) ==
  \A i \in DOMAIN list : list[i].updatedAt[1] >= list[i].createdAt[1]

\* C20 (as stated): the clock never goes back, and in every reachable state
\* every link and every folder of every view has updatedAt >= createdAt,
\* whatever sequence of add, update with any partial object, delete, restore,
\* toggleFavorite and reload led there.
C20_Original ==
  \A v \in Views : stampsInOrder(links[v]) /\ stampsInOrder(folders[v])

addedAfterOtherView(w) ==
  /\ lastOp.op = "addLink"
  /\ lastOp.ok
  /\ lastOp.view # w
  /\ lastOp'.op = "addLink"
  /\ lastOp'.view = w
  /\ lastOp'.id # lastOp.id
  /\ Hydrated(w)
  /\ links[w] = SelectSeq(links[lastOp.view], LAMBDA l : l.id # lastOp.id)

\* C22 (as stated): when two views have loaded the same durable state and
\* each then writes once without reloading in between, the later write leaves
\* the earlier view's write on another entity in place: the link the earlier
\* view added is still in the durable links record after the later view's
\* addLink.
C22_Original ==
  [][\A w \in Views :
       addedAfterOtherView(w) =>
         lastOp.id \in idsOf(getItem(durable', LINKS, <<>>))]_vars

\* ------------------------------------------------------------------- C23
\* the step is an addLink of view v that was written
linkAdded(v) ==
  /\ lastOp'.op = "addLink"
  /\ lastOp'.ok
  /\ lastOp'.view = v
  /\ lastOp' # lastOp

\* C23 (as stated): addLink(data) appends exactly one link at the end of the
\* collection, with deletedAt = null and createdAt equal to updatedAt,
\* carrying the given data fields, and leaves every existing link and its
\* position unchanged.
C23_Original ==
  [][\A v \in Views :
       linkAdded(v) =>
         LET new == links'[v][Len(links'[v])]
         IN /\ Len(links'[v]) = Len(links[v]) + 1
            /\ SubSeq(links'[v], 1, Len(links[v])) = links[v]
            /\ new.id = lastOp'.id
            /\ new.deletedAt = null
            /\ new.createdAt = new.updatedAt
            /\ \E d \in LinkData : \A f \in DOMAIN d : new[f] = d[f]]_vars

\* ------------------------------------------------------------------- C24
\* no two elements of the list have the same identifier
distinctIds(list) ==
  \A i, j \in DOMAIN list : list[i].id = list[j].id => i = j

\* the operation before this step hard-deleted the entity with this
\* identifier, and no view and no durable record holds it
hardDeleted(id) ==
  /\ lastOp.op \in {"deleteFolder", "permanentlyDeleteLink"}
  /\ lastOp.id = id
  /\ \A v \in open : id \notin idsOf(links[v]) \cup idsOf(folders[v])
  /\ id \notin idsOf(getItem(durable, LINKS, <<>>))
                 \cup idsOf(getItem(durable, FOLDERS, <<>>))

\* the step is an import of a snapshot that holds an entity with this
\* identifier: the entity is brought back, not newly created
importsEntity(id) ==
  \E jsonString \in ImportFiles :
    /\ validSnapshot(jsonString)
    /\ id \in idsOf(Parse(jsonString.fields.links))
                \cup idsOf(Parse(jsonString.fields.folders))
    /\ \E v \in Views : importData(v, jsonString)

\* C24 (as stated): in every reachable state the link identifiers are
\* pairwise distinct and the folder identifiers are pairwise distinct, and an
\* identifier once assigned to an entity that was later hard-deleted is never
\* assigned to a newly created entity. The second part is checked for the
\* entity the operation just before hard-deleted: the next step creates no
\* entity that carries its identifier.
C24_Original ==
  [][/\ \A v \in Views : distinctIds(links'[v]) /\ distinctIds(folders'[v])
     /\ \A id \in {lastOp.id} :
          (hardDeleted(id) /\ ~importsEntity(id)) =>
            \A v \in Views : id \notin idsOf(links'[v]) \cup idsOf(folders'[v])]_vars

\* ------------------------------------------------------------------- C25
\* the Move button is clicked in view v with a folder chosen that already
\* holds a selected link, and the confirmation is answered with proceed
moveAsked(v, proceed) ==
  /\ lastOp'.op = "handleMove"
  /\ moveSelectedFolderId[v] # null
  /\ alreadyInFolder(v) # <<>>
  /\ \E k \in 0..MaxIds : handleMove(v, proceed, k)

\* C25: in a bulk move where a selected link is already in the target folder
\* nothing is written unless the confirmation is accepted. Declined: the
\* links, the durable store and the selection are what they were, the modal
\* stays open and the moving flag is off. Accepted: the move proceeds, so that
\* when it completes every selected link is in the target folder and the
\* moving flag is off.
C25_MoveWaitsForConfirmation ==
  [][\A v \in Views :
       /\ moveAsked(v, FALSE) =>
            /\ links' = links
            /\ durable' = durable
            /\ selectedIds' = selectedIds
            /\ showMoveModal'[v]
            /\ ~isMoving'[v]
       /\ (moveAsked(v, TRUE) /\ lastOp'.ok) =>
            /\ \A i \in DOMAIN links[v] :
                 links[v][i].id \in selection(v) =>
                   links'[v][i].folderId = moveSelectedFolderId[v]
            /\ ~isMoving'[v]]_vars

\* the confirmation was declined: the modal is still open on a folder that
\* holds one of the two selected links, the other is still outside it
C25_Witness ==
  /\ lastOp.op = "handleMove"
  /\ lastOp.ok
  /\ showMoveModal[1]
  /\ moveSelectedFolderId[1] # null
  /\ Len(selectedIds[1]) = 2
  /\ Len(alreadyInFolder(1)) = 1
  /\ Len(moveCalls(1)) = 1

\* ------------------------------------------------------------------- C26
\* the step is a loadFromStorage of view v on a store whose folders record
\* was written before: not the first load
loadedAgain(v) ==
  /\ lastOp'.op = "loadFromStorage"
  /\ lastOp'.view = v
  /\ hasItem(durable, FOLDERS)
  /\ loadFromStorage(v)

\* C26 (as stated): the platform folders are synthesised at most once, at
\* the first load. A loadFromStorage on a store whose folders record exists
\* creates no folder: the view gets the folders of the record and the record
\* stays as it is, also when the user has deleted every folder.
C26_Original ==
  [][\A v \in Views :
       loadedAgain(v) =>
         /\ folders'[v] = getItem(durable, FOLDERS, <<>>)
         /\ durable' = durable]_vars

\* ------------------------------------------------------------------- C27
\* the step is a link mutation of view v issued while the view is not
\* hydrated, other than the removal the caller asked for
earlyMutation(v) ==
  /\ ~isHydrated[v]
  /\ lastOp'.view = v
  /\ lastOp'.op \in LinkMutations \ {"permanentlyDeleteLink"}
  /\ lastOp' # lastOp

\* C27 (as stated): a store mutation issued before loadFromStorage has
\* hydrated the store discards nothing that is in durable storage: every link
\* of the durable links record is still in it after the mutation.
C27_Original ==
  [][\A v \in Views :
       earlyMutation(v) =>
         idsOf(getItem(durable, LINKS, <<>>))
           \subseteq idsOf(getItem(durable', LINKS, <<>>))]_vars

\* ------------------------------------------------------------------- C28
\* C28 (as stated): in every reachable state every id in the selection of the
\* page is the id of a link the page shows under the current view, selected
\* folder and search query.
C28_Original ==
  \A v \in Views : selection(v) \subseteq idsOf(filteredLinks(v))

\* ------------------------------------------------------------------- C29
\* the step is a click on select all in view v
selectAllClicked(v) ==
  /\ lastOp'.op = "handleSelectAll"
  /\ handleSelectAll(v)

\* C29 (as stated): select all, when a visible link is not selected, leaves
\* every visible link selected; when every visible link is selected already,
\* it takes exactly the visible links out of the selection.
C29_Original ==
  [][\A v \in Views :
       selectAllClicked(v) =>
         LET visible == idsOf(filteredLinks(v))
             after == { selectedIds'[v][i] : i \in DOMAIN selectedIds'[v] }
         IN IF visible \subseteq selection(v)
              THEN after = selection(v) \ visible
              ELSE visible \subseteq after]_vars

\* ------------------------------------------------------------------- C30
\* C30 (as stated): in every reachable state selectedFolderId is null or the
\* id of a folder that is in the folders collection and is shown in the
\* sidebar, after any sequence of folder selections and of folder deletions
\* through handleDeleteFolder.
C30_Original ==
  \A v \in Views :
    \/ selectedFolderId[v] = null
    \/ /\ selectedFolderId[v] \in idsOf(folders[v])
       /\ selectedFolderId[v] \in sidebarRows(v)
====
